---- MODULE Spec2Model ----
(***************************************************************************)
(* Verification model of pr_brainfit: the biometric pattern-extraction     *)
(* pipeline (baselines, activity classification, Markov transitions,       *)
(* break detection).                                                       *)
(*                                                                         *)
(* Numbers.  Heart rates are integers (bpm).  resting_hr is a quantile     *)
(* with linear interpolation, so every quantity derived from it is kept    *)
(* as an exact integer multiple of 1/Scale bpm.  Ratios are kept as        *)
(* numerator/denominator pairs and compared by cross-multiplication.       *)
(* A float NaN is the record NaN; +inf/-inf/nan results of a numpy         *)
(* division are the "kind" of an extended fraction.                        *)
(***************************************************************************)
EXTENDS Integers, Sequences, FiniteSets, TLC

VARIABLES
    \* ---- baseline estimator and activity classifier
    df,           \* cleaned frame handed to calculate_individual_baselines:
                  \* sequence of rows [user_id, heart_rate, is_working_hours]
    ages,         \* the 'age' column, constant per user (merged from user_df)
    baselines,    \* result of calculate_individual_baselines (dict user -> record)
    activity,     \* result of analyze_activity_distribution
    pcBase,       \* "input" | "baselined" | "classified"
    \* ---- Markov transition engine
    tp_df,        \* frame handed to calculate_transition_probabilities: the set
                  \* of its rows [user_id, standardized_group, local_time,
                  \* heart_rate]; (user_id, local_time) is unique (deduplicated
                  \* upstream) and the function sorts by it, so the order of
                  \* the rows in the frame is not part of the state
    tp_baselines, \* the baselines argument (dict user -> record)
    group_data,   \* per group: group_data after line 107 (the rows that are counted)
    transition_matrices,  \* the returned dict, or the exception that ended the call
    pcMarkov,     \* "input" | "done"
    \* ---- break detector
    bk_df,        \* frame handed to detect_breaks: the set of its rows [user_id,
                  \* standardized_group, local_time (minutes), stress_score];
                  \* (user_id, local_time) is unique, the function sorts by time
    threshold_duration,   \* argument, minutes
    stress_drop,          \* argument
    breaks,       \* the returned dict: per group, per user, the events in the
                  \* order they were appended
    in_break_log, \* per group, per user: in_break after each row of the loop
    breaks_again, \* the dict returned by a second call on the frame as the
                  \* first call left it
    pcBreak,      \* "input" | "done" | "again"
    \* ---- peak detector
    pk_df,        \* frame handed to detect_peaks: the set of its rows [user_id,
                  \* standardized_group, local_time (minutes), stress_score]
    prominence,   \* argument
    width,        \* argument
    peaks_data,   \* the returned dict: per group, the rows of the peak table
    recovery_metrics,   \* result of calculate_recovery_metrics(peaks_data)
    patterns,     \* result of analyze_peak_patterns(peaks_data)
    pcPeak,       \* "input" | "detected"
    \* ---- statistical tests
    st_df,        \* frame handed to run_time_comparisons: the set of its rows
                  \* [standardized_group, user_id, date, time (HHMM), stress_score]
    st_columns,   \* the columns of that frame
    time_results, \* what run_time_comparisons returned
    group_differences,  \* what analyze_group_differences returned
    pcStats,      \* "input" | "compared" | "analyzed"
    \* ---- variance components
    var_df,       \* frame handed to calculate_group_variance and
                  \* compare_group_variability: the set of its rows
                  \* [standardized_group, user_id, date, time, stress_score]
    variance_scores,    \* result of calculate_group_variance
    comparisons,        \* result of compare_group_variability
    pcVar,        \* "input" | "variance" | "variability" | "both"
    \* ---- productivity join
    biometric_df,       \* frame handed to create_monthly_biometric_summaries
    cask_df,            \* productivity rows as load_cask_data returns them
    monthly_summaries,  \* result of create_monthly_biometric_summaries
    combined_data,      \* result of combine_productivity_biometrics
    pcCombine,    \* "input" | "summarised" | "combined"
    \* ---- productivity correlations
    corr_df,            \* frame handed to analyze_productivity_correlations:
                        \* sequence of rows, a value per column
    corr_columns,       \* the metric columns the frame has
    correlation_results,
    pcCorr,       \* "input" | "done"
    \* ---- team patterns and the batch run
    team_df,            \* cleaned frame handed to analyze_team_patterns:
                        \* sequence of rows [user_id, standardized_group, heart_rate]
    team_baselines,     \* the baselines handed to it
    pattern_results,    \* what analyze_team_patterns returned or raised
    main_result,        \* what main returned
    pcTeam        \* "input" | "analysed" | "returned"

baseVars == <<df, ages, baselines, activity, pcBase>>
markovVars == <<tp_df, tp_baselines, group_data, transition_matrices, pcMarkov>>
breakVars == <<bk_df, threshold_duration, stress_drop, breaks, in_break_log,
               breaks_again, pcBreak>>
peakVars == <<pk_df, prominence, width, peaks_data, recovery_metrics, patterns, pcPeak>>
statsVars == <<st_df, st_columns, time_results, group_differences, pcStats>>
varVars == <<var_df, variance_scores, comparisons, pcVar>>
combineVars == <<biometric_df, cask_df, monthly_summaries, combined_data, pcCombine>>
corrVars == <<corr_df, corr_columns, correlation_results, pcCorr>>
teamVars == <<team_df, team_baselines, pattern_results, main_result, pcTeam>>

vars == <<df, ages, baselines, activity, pcBase,
          tp_df, tp_baselines, group_data, transition_matrices, pcMarkov,
          bk_df, threshold_duration, stress_drop, breaks, in_break_log,
          breaks_again, pcBreak,
          pk_df, prominence, width, peaks_data, recovery_metrics, patterns, pcPeak,
          st_df, st_columns, time_results, group_differences, pcStats,
          var_df, variance_scores, comparisons, pcVar,
          biometric_df, cask_df, monthly_summaries, combined_data, pcCombine,
          corr_df, corr_columns, correlation_results, pcCorr,
          team_df, team_baselines, pattern_results, main_result, pcTeam>>

(***************************************************************************)
(* Generic helpers                                                         *)
(***************************************************************************)
RECURSIVE SumSeq(_)
SumSeq(s) == IF s = <<>> THEN 0 ELSE Head(s) + SumSeq(Tail(s))

RECURSIVE InsertSorted(_, _)
InsertSorted(x, s) ==
    IF s = <<>> THEN <<x>>
    ELSE IF x <= Head(s) THEN <<x>> \o s
    ELSE <<Head(s)>> \o InsertSorted(x, Tail(s))

RECURSIVE SortInts(_)
SortInts(s) == IF s = <<>> THEN <<>> ELSE InsertSorted(Head(s), SortInts(Tail(s)))

RECURSIVE SelectSeqIdx(_, _, _)
\* indices i >= from of s, ascending, for which keep[i] holds
SelectSeqIdx(keep, from, n) ==
    IF from > n THEN <<>>
    ELSE (IF keep[from] THEN <<from>> ELSE <<>>) \o SelectSeqIdx(keep, from + 1, n)

\* float values that may be NaN
Val(x) == [nan |-> FALSE, v |-> x]
NaN == [nan |-> TRUE, v |-> 0]

(***************************************************************************)
(* Configuration (config/settings.py)                                      *)
(***************************************************************************)
Scale == 100                      \* fixed-point unit: 1/100 bpm
RestingHrPercentile == 5          \* STRESS_PARAMS['resting_hr_percentile']
ThresholdSedentary == 20          \* ACTIVITY_THRESHOLDS['sedentary']
ThresholdLight == 40              \* ACTIVITY_THRESHOLDS['light']
ThresholdModerate == 70           \* ACTIVITY_THRESHOLDS['moderate']
MaxHrBase == 220                  \* max_hr = 220 - age
MaxHrDefault == 180               \* max_hr when age is unknown
MinHr == 40                       \* QUALITY_THRESHOLDS['min_hr']
MaxHr == 200                      \* QUALITY_THRESHOLDS['max_hr']

Levels == <<"sedentary", "light", "moderate", "intense">>
LevelSet == {"sedentary", "light", "moderate", "intense"}
LevelRank(l) == CHOOSE i \in 1..4 : Levels[i] = l

(***************************************************************************)
(* Inputs of the baseline component                                        *)
(***************************************************************************)
MaxSamples == 3                   \* rows in the frame
Users == {"u1", "u2"}
HeartRates == {40, 72, 152, 200}  \* all pass cleaning: MinHr <= hr <= MaxHr
Ages == {Val(20), NaN}            \* age 20 (max_hr 200), age unknown

UsersOf(frame) == {frame[i].user_id : i \in DOMAIN frame}

(***************************************************************************)
(* data/processor.py: calculate_individual_baselines                       *)
(***************************************************************************)
\* Series.quantile(q/100), linear interpolation, of the values xs (bpm);
\* result in 1/Scale bpm; NaN for an empty series.
Quantile(xs, q) ==
    IF xs = <<>> THEN NaN
    ELSE LET s == SortInts(xs)
             n == Len(s)
             pos == q * (n - 1)               \* position * 100
             lo == pos \div 100
             fr == pos % 100
             hi == IF fr > 0 THEN lo + 1 ELSE lo
         IN  Val(Scale * s[lo + 1] + (fr * Scale * (s[hi + 1] - s[lo + 1])) \div 100)

WorkingHeartRates(frame, u) ==
    LET keep == [i \in DOMAIN frame |->
                    frame[i].user_id = u /\ frame[i].is_working_hours]
        idx == SelectSeqIdx(keep, 1, Len(frame))
    IN  [k \in DOMAIN idx |-> frame[idx[k]].heart_rate]

MaxHrOf(age) == IF ~age.nan THEN Scale * (MaxHrBase - age.v) ELSE Scale * MaxHrDefault

\* NaN propagates through max_hr - resting_hr
BaselineOf(frame, age, u) ==
    LET resting_hr == Quantile(WorkingHeartRates(frame, u), RestingHrPercentile)
        max_hr == MaxHrOf(age)
    IN  [resting_hr |-> resting_hr,
         max_hr |-> max_hr,
         hr_reserve |-> IF resting_hr.nan THEN NaN ELSE Val(max_hr - resting_hr.v)]

\* one entry for every user_id of the frame, whatever its working-hours rows
IndividualBaselines(frame, age) ==
    [u \in UsersOf(frame) |-> BaselineOf(frame, age[u], u)]

(***************************************************************************)
(* analysis/activity_analysis.py: the classifier                           *)
(***************************************************************************)
\* hr_reserve_used = (heart_rate - resting_hr) / hr_reserve, a float64
\* division: x/0 is +inf, -inf or nan (a warning, no exception).
\* "fin" fractions are normalised to a positive denominator.
ReserveUsed(hr, b) ==
    IF b.resting_hr.nan \/ b.hr_reserve.nan THEN [kind |-> "nan", n |-> 0, d |-> 1]
    ELSE LET num == Scale * hr - b.resting_hr.v
             den == b.hr_reserve.v
         IN  IF den > 0 THEN [kind |-> "fin", n |-> num, d |-> den]
             ELSE IF den < 0 THEN [kind |-> "fin", n |-> 0 - num, d |-> 0 - den]
             ELSE IF num > 0 THEN [kind |-> "inf", n |-> 0, d |-> 1]
             ELSE IF num < 0 THEN [kind |-> "-inf", n |-> 0, d |-> 1]
             ELSE [kind |-> "nan", n |-> 0, d |-> 1]

\* f <= pct/100 ; every comparison with nan is False
LeqPct(f, pct) ==
    \/ f.kind = "-inf"
    \/ f.kind = "fin" /\ 100 * f.n <= pct * f.d

ActivityLevelStrictFirst(hr, b) ==
    LET f == ReserveUsed(hr, b)
    IN  IF LeqPct(f, ThresholdSedentary) /\ ~(f.kind = "fin" /\ 100 * f.n = ThresholdSedentary * f.d)
            THEN "sedentary"
        ELSE IF LeqPct(f, ThresholdLight) THEN "light"
        ELSE IF LeqPct(f, ThresholdModerate) THEN "moderate"
        ELSE "intense"

ActivityLevel(hr, b) ==
    LET f == ReserveUsed(hr, b)
    IN  IF LeqPct(f, ThresholdSedentary) THEN "sedentary"
        ELSE IF LeqPct(f, ThresholdLight) THEN "light"
        ELSE IF LeqPct(f, ThresholdModerate) THEN "moderate"
        ELSE "intense"

\* analyze_activity_distribution on a frame of one standardized_group:
\* every row whose user has a baseline entry is classified and counted; no
\* exception is raised anywhere in the loop.
ActivityDistribution(frame, bl) ==
    LET lv == [i \in DOMAIN frame |->
                 IF frame[i].user_id \in DOMAIN bl
                     THEN ActivityLevel(frame[i].heart_rate, bl[frame[i].user_id])
                     ELSE "none"]
    IN  [raised |-> "no",
         levels |-> lv,
         activity_levels |-> [l \in LevelSet |-> Cardinality({i \in DOMAIN frame : lv[i] = l})],
         total_samples |-> Len(frame)]

(***************************************************************************)
(* Inputs of the Markov component                                          *)
(***************************************************************************)
MaxRows == 4                      \* rows in the frame
Times == {1, 2, 3}                \* local_time values
UserOrder == <<"u1", "u2">>       \* user_id values in sort order
UserGroup == [u \in Users |-> "KILMALID"]
\* baseline of a user of age 20 whose resting_hr is 40
Baseline40 == BaselineOf(<<[user_id |-> "u1", heart_rate |-> 40, is_working_hours |-> TRUE]>>,
                         Val(20), "u1")
\* heart rates that Baseline40 maps to sedentary, light, moderate, intense
TpHeartRates == {40, 100, 152, 200}
BaselineChoices == {[u \in Users |-> Baseline40], [u \in {"u1"} |-> Baseline40]}

MarkovIdle ==
    /\ tp_df = {}
    /\ tp_baselines = <<>>
    /\ group_data = <<>>
    /\ transition_matrices = [raised |-> "no", result |-> <<>>]
    /\ pcMarkov = "idle"

(***************************************************************************)
(* analysis/activity_analysis.py: calculate_transition_probabilities       *)
(***************************************************************************)
UserRank(u) == CHOOSE i \in DOMAIN UserOrder : UserOrder[i] = u

RowBefore(a, b) ==
    \/ UserRank(a.user_id) < UserRank(b.user_id)
    \/ a.user_id = b.user_id /\ a.local_time < b.local_time

\* sort_values(['user_id', 'local_time']) of a set of rows with unique keys
RECURSIVE SortValues(_)
SortValues(rows) ==
    IF rows = {} THEN <<>>
    ELSE LET first == CHOOSE r \in rows : \A q \in rows \ {r} : RowBefore(r, q)
         IN  <<first>> \o SortValues(rows \ {first})

\* the activity_levels list, lines 81-99
LevelOrUnknown(row, bl) ==
    IF row.user_id \in DOMAIN bl
        THEN ActivityLevel(row.heart_rate, bl[row.user_id])
        ELSE "unknown"

\* groupby('user_id')['activity_level'].shift(-1): "NaN" on a user's last row
NextActivityAcrossUsers(sorted, lv, k) ==
    IF k < Len(sorted) THEN lv[k + 1] ELSE "NaN"

NextActivity(sorted, lv, k) ==
    IF k < Len(sorted) /\ sorted[k + 1].user_id = sorted[k].user_id
        THEN lv[k + 1]
        ELSE "NaN"

\* lines 77-107: the rows of one group that reach the crosstab
CountedRows(frame, bl, g) ==
    LET sorted == SortValues({r \in frame : r.standardized_group = g})
        lv == [k \in DOMAIN sorted |-> LevelOrUnknown(sorted[k], bl)]
        nx == [k \in DOMAIN sorted |-> NextActivity(sorted, lv, k)]
        keep == [k \in DOMAIN sorted |->
                    nx[k] # "NaN" /\ lv[k] # "unknown" /\ nx[k] # "unknown"]
        idx == SelectSeqIdx(keep, 1, Len(sorted))
    IN  [k \in DOMAIN idx |->
            [user_id |-> sorted[idx[k]].user_id,
             local_time |-> sorted[idx[k]].local_time,
             activity_level |-> lv[idx[k]],
             next_activity |-> nx[idx[k]]]]

\* crosstab labels come out sorted
LabelOrder == <<"intense", "light", "moderate", "sedentary">>
SortedLabels(present) ==
    LET keep == [i \in DOMAIN LabelOrder |-> LabelOrder[i] \in present]
        idx == SelectSeqIdx(keep, 1, Len(LabelOrder))
    IN  [k \in DOMAIN idx |-> LabelOrder[idx[k]]]

PairCount(counted, a, b) ==
    Cardinality({k \in DOMAIN counted :
                    counted[k].activity_level = a /\ counted[k].next_activity = b})

\* normalize='index' divides by the sum of the row; the variant divides by
\* the sum of the whole table (normalize='all')
TableTotal(cnt, i) ==
    SumSeq([k \in DOMAIN cnt |-> SumSeq(cnt[k])])

RowTotal(cnt, i) == SumSeq(cnt[i])

\* pd.crosstab(activity_level, next_activity, normalize='index'):
\* index = the levels that occur as a source, columns = the levels that
\* occur as a next state; entry (i, j) = cnt[i][j] / tot[i]
Crosstab(counted) ==
    LET rows == SortedLabels({counted[k].activity_level : k \in DOMAIN counted})
        cols == SortedLabels({counted[k].next_activity : k \in DOMAIN counted})
        cnt == [i \in DOMAIN rows |->
                   [j \in DOMAIN cols |-> PairCount(counted, rows[i], cols[j])]]
    IN  [index |-> rows, columns |-> cols, cnt |-> cnt,
         tot |-> [i \in DOMAIN rows |-> RowTotal(cnt, i)]]

IsSquare(t) == Len(t.index) = Len(t.columns)
IsEmpty(t) == Len(t.index) = 0 \/ Len(t.columns) = 0

(***************************************************************************)
(* Inputs of the break detector                                            *)
(***************************************************************************)
MaxBreakRows == 5                 \* rows in the frame
\* local_time values (minutes) a user's samples may have
BreakTimes == [u \in Users |-> IF u = "u1" THEN {0, 5, 10, 15, 20} ELSE {0, 5}]
StressScores == {0, 50, 100}      \* stress_score is clamped to 0..100

\* default arguments of detect_breaks (line 6)
DefaultStressDrop == 20
DefaultThresholdDuration == 10

MaxSeriesRows == 9                \* samples of the series of one user
SeriesScores == {0, 1, 100}       \* stress scores of that series
StressDrops == {10, 20}           \* stress_drop argument (default 20)
ThresholdDurations == {5, 10}     \* threshold_duration argument (default 10)
RollingWindow == 5                \* rolling(window=5, min_periods=1)

BreakIdle ==
    /\ bk_df = {}
    /\ threshold_duration = 0
    /\ stress_drop = 0
    /\ breaks = <<>>
    /\ in_break_log = <<>>
    /\ breaks_again = <<>>
    /\ pcBreak = "idle"

(***************************************************************************)
(* Inputs of the peak detector                                             *)
(***************************************************************************)
MaxPeakRows == 7                  \* rows in the frame
\* samples per user; a user's samples are SampleStep minutes apart
MaxUserSamples == [u \in Users |-> IF u = "u1" THEN MaxPeakRows ELSE 3]
SampleStep == 5
Prominences == {20}               \* prominence argument (default 20)
Widths == {1, 5}                  \* width argument (default 5)

NoMetrics == <<>>

PeakIdle ==
    /\ pk_df = {}
    /\ prominence = 0
    /\ width = 0
    /\ peaks_data = <<>>
    /\ recovery_metrics = NoMetrics
    /\ patterns = NoMetrics
    /\ pcPeak = "idle"

(***************************************************************************)
(* Inputs of the statistical tests                                         *)
(***************************************************************************)
GroupOrder == <<"DALMUIR", "KILMALID", "KB3">>
Sites == {GroupOrder[k] : k \in DOMAIN GroupOrder}
MinSamples == 5                   \* min_samples
MaxDays == 5                      \* distinct days a group has in a time block
\* times of day (HHMM) of the samples: one before and one in working hours
TimesOfDay == {630, 901}
\* times of day of which two lie in one quarter of an hour, and the groups
\* sampled at them
BlockTimes == {901, 914}
BlockSites == {"KILMALID", "KB3"}
\* the columns of a frame returned by clean_biometric_data that the tests read
CleanedColumns == {"local_time", "standardized_group", "user_id", "stress_score",
                   "date", "hour"}
\* samples are added per (group, time of day): a number of days and a
\* number of samples (users) on each of these days
Profiles == {[days |-> 1, per_day |-> MaxDays],
             [days |-> MaxDays - 1, per_day |-> 1],
             [days |-> MaxDays, per_day |-> 1]}
\* stress_score of a group's samples
SiteStress == [g \in Sites |-> IF g = "DALMUIR" THEN 30 ELSE IF g = "KILMALID" THEN 50 ELSE 70]
\* p-values a test may return, in thousandths: for the pairwise tests, which
\* are held against the corrected threshold, and for the tests held against
\* 0.05 only
PValues == {10, 30, 500}
UncorrectedPValues == {10, 500}
Alpha == 50                       \* 0.05 in thousandths
BlockProfiles == {[days |-> 1, per_day |-> 1], [days |-> MaxDays, per_day |-> 1]}

NoResults == [raised |-> "none"]

StatsIdle ==
    /\ st_df = {}
    /\ st_columns = {}
    /\ time_results = NoResults
    /\ group_differences = NoResults
    /\ pcStats = "idle"

(***************************************************************************)
(* Inputs of the variance components                                       *)
(***************************************************************************)
MaxVarRows == 3                   \* rows in the frame
VarDates == {1, 2}
VarTimes == {1, 2}

VarIdle ==
    /\ var_df = {}
    /\ variance_scores = <<>>
    /\ comparisons = <<>>
    /\ pcVar = "idle"

(***************************************************************************)
(* Inputs of the productivity join                                         *)
(***************************************************************************)
MaxBioRows == 2                   \* rows in the biometric frame
MaxCaskRows == 2                  \* rows in the productivity file
Years == {2024}
Months == {1, 2}
BioGroups == {"KB3", "KILMALID"}
RawSites == {"KB3", "kb3", "NOPS"}     \* site column of the productivity file
BioStress == {50, 100}
Receipts == {100}

CombineIdle ==
    /\ biometric_df = {}
    /\ cask_df = <<>>
    /\ monthly_summaries = <<>>
    /\ combined_data = <<>>
    /\ pcCombine = "idle"

(***************************************************************************)
(* Inputs of the productivity correlations                                 *)
(***************************************************************************)
MaxCorrRows == 3                  \* rows in the frame
MetricValues == {NaN, Val(1), Val(2)}
MetricColumns == {"stress_mean", "receipts"}

CorrIdle ==
    /\ corr_df = <<>>
    /\ corr_columns = {}
    /\ correlation_results = <<>>
    /\ pcCorr = "idle"

(***************************************************************************)
(* Inputs of the team patterns                                             *)
(***************************************************************************)
MaxTeamRows == 3                  \* rows in the frame
TeamGroup == [u \in Users |-> IF u = "u1" THEN "KILMALID" ELSE "KB3"]
NoneResult == [returned |-> "None"]

TeamIdle ==
    /\ team_df = <<>>
    /\ team_baselines = <<>>
    /\ pattern_results = NoResults
    /\ main_result = NoResults
    /\ pcTeam = "idle"

(***************************************************************************)
(* analysis/break_analysis.py: detect_breaks                               *)
(***************************************************************************)
\* sort_values('local_time') of one user's rows
RECURSIVE SortByTime(_)
SortByTime(rows) ==
    IF rows = {} THEN <<>>
    ELSE LET first == CHOOSE r \in rows : \A q \in rows \ {r} : r.local_time < q.local_time
         IN  <<first>> \o SortByTime(rows \ {first})

Max(a, b) == IF a >= b THEN a ELSE b

\* rolling(window=5, min_periods=1).mean() at row i: sum and count of the
\* rows max(1, i-4) .. i
SmoothStress(ud, i) ==
    LET from == Max(1, i - RollingWindow + 1)
    IN  [n |-> SumSeq([k \in 1..(i - from + 1) |-> ud[from + k - 1].stress_score]),
         d |-> i - from + 1]

\* the binary exponent e of a positive quotient s / n: 2^e <= s / n < 2^(e+1)
BinaryExponent(s, n) ==
    CHOOSE e \in (0 - 3)..9 : 2^(e + 3) * n <= 8 * s /\ 8 * s < 2^(e + 4) * n

\* 2^k modulo n for a window size n in 1..5 and k >= 2
Pow2Mod(k, n) == IF n \in {1, 2, 4} THEN 0 ELSE (2^(k % 4)) % n

\* the float64 quotient sum_x / nobs of the rolling mean: the stored value is
\* m.n / m.d + c / (m.d * 2^(52 - e)), the quotient rounded to a 53-bit
\* mantissa (round to nearest; no ties, as 3 and 5 are odd); c = 0 when the
\* quotient is a binary fraction
Float64Error(m) ==
    IF m.n = 0 THEN [c |-> 0, e |-> 0]
    ELSE LET e == BinaryExponent(m.n, m.d)
             r == ((m.n % m.d) * Pow2Mod(52 - e, m.d)) % m.d
         IN  [c |-> IF 2 * r < m.d THEN 0 - r ELSE m.d - r, e |-> e]

\* smooth_stress.diff() at row i: the exact difference n / d of the two
\* quotients, with positive denominator, and the quotients themselves (`to'
\* at row i, `from' at row i - 1); NaN on the first row
StressDropAt(ud, i) ==
    IF i = 1 THEN [nan |-> TRUE, n |-> 0, d |-> 1,
                   to |-> [n |-> 0, d |-> 1], from |-> [n |-> 0, d |-> 1]]
    ELSE LET a == SmoothStress(ud, i)
             b == SmoothStress(ud, i - 1)
         IN  [nan |-> FALSE, n |-> a.n * b.d - b.n * a.d, d |-> a.d * b.d,
              to |-> a, from |-> b]

\* the difference of the float64 rounding errors of the two means of a
\* drop f, in units of 1 / (f.d * 2^55)
RoundingGap(f) ==
    LET ra == Float64Error(f.to)
        rb == Float64Error(f.from)
    IN  ra.c * f.from.d * 2^(ra.e + 3) - rb.c * f.to.d * 2^(rb.e + 3)

Abs(x) == IF x < 0 THEN 0 - x ELSE x

\* half the spacing of the float64 numbers next to the integer c /= 0, in
\* units of 1 / 2^55
HalfSpacing(c) == 2^(BinaryExponent(Abs(c), 1) + 2)

\* variant that compares the exact difference of the quotients
DropGreaterExact(f, c) == ~f.nan /\ f.n > c * f.d

\* f < c and f > c for a float64 drop f and an integer c /= 0; comparisons
\* with NaN are False.  The subtraction rounds to nearest, ties to even:
\* unless the exact difference of the quotients is c itself, the rounding
\* cannot change the outcome; when it is c, the float is beyond c when the
\* rounding errors of the two means differ by more than half a spacing
DropLess(f, c) ==
    /\ ~f.nan
    /\ \/ f.n < c * f.d
       \/ f.n = c * f.d /\ RoundingGap(f) < 0 - HalfSpacing(c) * f.d
DropGreater(f, c) ==
    /\ ~f.nan
    /\ \/ f.n > c * f.d
       \/ f.n = c * f.d /\ RoundingGap(f) > HalfSpacing(c) * f.d

\* ['stress_score'].mean() over the rows with break_start <= local_time <= t
StressReduction(ud, from, to) ==
    LET keep == [k \in DOMAIN ud |-> ud[k].local_time >= from /\ ud[k].local_time <= to]
        idx == SelectSeqIdx(keep, 1, Len(ud))
    IN  [n |-> SumSeq([k \in DOMAIN idx |-> ud[idx[k]].stress_score]), d |-> Len(idx)]

\* variant without the duration test: every closed segment becomes an event
QualifiesAlways(duration, threshold) == TRUE

\* does a closed segment of this duration become an event (line 36)
Qualifies(duration, threshold) == duration >= threshold

\* variant of the loop body that leaves the break open after a rise
BreakStepKeepOpen(st, ud, i, u, threshold, sdrop) ==
    LET row == ud[i]
        drop == StressDropAt(ud, i)
    IN  IF ~st.in_break /\ DropLess(drop, 0 - sdrop)
            THEN [st EXCEPT !.in_break = TRUE, !.break_start = row.local_time,
                            !.log = Append(@, TRUE)]
        ELSE IF st.in_break /\ DropGreater(drop, sdrop)
            THEN LET break_duration == row.local_time - st.break_start
                 IN  [st EXCEPT
                        !.log = Append(@, TRUE),
                        !.events =
                            IF Qualifies(break_duration, threshold)
                                THEN Append(@, [user_id |-> u,
                                                start_time |-> st.break_start,
                                                end_time |-> row.local_time,
                                                duration |-> break_duration,
                                                stress_reduction |->
                                                    StressReduction(ud, st.break_start,
                                                                    row.local_time)])
                                ELSE @]
        ELSE [st EXCEPT !.log = Append(@, st.in_break)]

\* one iteration of the row loop (lines 30-47) on loop state st
BreakStep(st, ud, i, u, threshold, sdrop) ==
    LET row == ud[i]
        drop == StressDropAt(ud, i)
    IN  IF ~st.in_break /\ DropLess(drop, 0 - sdrop)
            THEN [st EXCEPT !.in_break = TRUE, !.break_start = row.local_time,
                            !.log = Append(@, TRUE)]
        ELSE IF st.in_break /\ DropGreater(drop, sdrop)
            THEN LET break_duration == row.local_time - st.break_start
                 IN  [st EXCEPT
                        !.in_break = FALSE,
                        !.log = Append(@, FALSE),
                        !.events =
                            IF Qualifies(break_duration, threshold)
                                THEN Append(@, [user_id |-> u,
                                                start_time |-> st.break_start,
                                                end_time |-> row.local_time,
                                                duration |-> break_duration,
                                                stress_reduction |->
                                                    StressReduction(ud, st.break_start,
                                                                    row.local_time)])
                                ELSE @]
        ELSE [st EXCEPT !.log = Append(@, st.in_break)]

RECURSIVE BreakLoop(_, _, _, _, _, _)
BreakLoop(st, ud, i, u, threshold, sdrop) ==
    IF i > Len(ud) THEN st
    ELSE BreakLoop(BreakStep(st, ud, i, u, threshold, sdrop), ud, i + 1, u, threshold, sdrop)

\* lines 15-47 for one user: in_break and break_start start afresh
UserData(frame, g, u) ==
    SortByTime({r \in frame : r.standardized_group = g /\ r.user_id = u})

\* variant that enters a user's series with a break already open
DetectUserOpen(frame, g, u, threshold, sdrop) ==
    BreakLoop([in_break |-> TRUE, break_start |-> 0 - 1, events |-> <<>>, log |-> <<>>],
              UserData(frame, g, u), 1, u, threshold, sdrop)

DetectUser(frame, g, u, threshold, sdrop) ==
    BreakLoop([in_break |-> FALSE, break_start |-> 0 - 1, events |-> <<>>, log |-> <<>>],
              UserData(frame, g, u), 1, u, threshold, sdrop)

UsersIn(frame, g) == {r.user_id : r \in {q \in frame : q.standardized_group = g}}


(***************************************************************************)
(* Actions of the baseline component                                       *)
(***************************************************************************)
NoActivity == [raised |-> "no", levels |-> <<>>,
               activity_levels |-> [l \in LevelSet |-> 0], total_samples |-> 0]

BaseIdle ==
    /\ df = <<>>
    /\ ages = [u \in Users |-> NaN]
    /\ baselines = <<>>
    /\ activity = NoActivity
    /\ pcBase = "idle"

InitBase ==
    /\ df = <<>>
    /\ ages \in [Users -> Ages]
    /\ baselines = <<>>
    /\ activity = NoActivity
    /\ pcBase = "input"
    /\ MarkovIdle
    /\ BreakIdle
    /\ PeakIdle
    /\ StatsIdle
    /\ VarIdle
    /\ CombineIdle
    /\ CorrIdle
    /\ TeamIdle

\* the cleaning collaborator delivers one more sample
AddSample ==
    /\ pcBase = "input"
    /\ Len(df) < MaxSamples
    /\ \E u \in Users, hr \in HeartRates, wh \in BOOLEAN :
          /\ MinHr <= hr /\ hr <= MaxHr          \* kept by clean_biometric_data
          /\ df' = Append(df, [user_id |-> u, heart_rate |-> hr, is_working_hours |-> wh])
    /\ UNCHANGED <<ages, baselines, activity, pcBase>>
    /\ UNCHANGED <<markovVars, breakVars, peakVars, statsVars, varVars, combineVars, corrVars, teamVars>>

CalculateIndividualBaselines ==
    /\ pcBase = "input"
    /\ df # <<>>
    /\ baselines' = IndividualBaselines(df, ages)
    /\ pcBase' = "baselined"
    /\ UNCHANGED <<df, ages, activity>>
    /\ UNCHANGED <<markovVars, breakVars, peakVars, statsVars, varVars, combineVars, corrVars, teamVars>>

AnalyzeActivityDistribution ==
    /\ pcBase = "baselined"
    /\ activity' = ActivityDistribution(df, baselines)
    /\ pcBase' = "classified"
    /\ UNCHANGED <<df, ages, baselines>>
    /\ UNCHANGED <<markovVars, breakVars, peakVars, statsVars, varVars, combineVars, corrVars, teamVars>>

NextBase ==
    \/ AddSample
    \/ CalculateIndividualBaselines
    \/ AnalyzeActivityDistribution

SpecBase == InitBase /\ [][NextBase]_vars

\* ---- calculate_steady_state
RECURSIVE ProdSeq(_)
ProdSeq(s) == IF s = <<>> THEN 1 ELSE Head(s) * ProdSeq(Tail(s))

EigRange == MaxRows - 1           \* integer directions searched, per entry

\* one representative per direction: integer entries without a common
\* factor, first nonzero entry positive.  v and c*v give the same result
\* after the division by the sum.
IsDirection(v) ==
    /\ \E i \in DOMAIN v : v[i] # 0
    /\ LET first == CHOOSE i \in DOMAIN v : v[i] # 0 /\ \A k \in DOMAIN v : k < i => v[k] = 0
       IN  v[first] > 0
    /\ \A c \in 2..EigRange : \E i \in DOMAIN v : v[i] % c # 0

\* v (as a row) times the table, scaled by the product R of the row sums:
\* entry j of v.P, times R
TimesTable(v, t, j) ==
    LET R == ProdSeq(t.tot)
    IN  SumSeq([i \in DOMAIN t.index |-> v[i] * t.cnt[i][j] * (R \div t.tot[i])])

IsLeftEigenvector(v, t) ==
    LET R == ProdSeq(t.tot)
    IN  \A j \in DOMAIN t.columns : TimesTable(v, t, j) = v[j] * R

\* np.linalg.eig(transition_matrix.T) on a square table whose rows each sum
\* to 1: the largest eigenvalue is 1, and the column np.argmax selects is a
\* unit eigenvector of it, i.e. some v with v.P = v taken positionally.  When
\* the eigenvalue is simple the direction is unique; when it is repeated
\* LAPACK's choice inside the eigenspace is not specified, so every
\* direction of the eigenspace is a possible outcome.
\* (For a table whose rows did not each sum to 1 the dominant eigenvalue
\* would not be 1; its eigenvector is not modelled and left unconstrained.)
EigVectors(t) ==
    LET n == Len(t.index)
        stochastic == \A i \in 1..n : SumSeq(t.cnt[i]) = t.tot[i]
    IN  {v \in [1..n -> (0 - EigRange)..EigRange] :
            /\ stochastic => IsLeftEigenvector(v, t)
            /\ IsDirection(v)}

\* steady_state / steady_state.sum(), labelled with the COLUMNS of the table;
\* entry j is v[j]/sum (sum = 0 gives inf/nan entries)
SteadyState(t, v) == [index |-> t.columns, v |-> v, sum |-> SumSeq(v)]

\* ---- calculate_average_duration
\* np.diag takes the positional diagonal; 1/(1 - cnt/tot) = tot/(tot - cnt),
\* labelled with the COLUMNS of the table; d = 0 is +inf
AverageDuration(t) ==
    [index |-> t.columns,
     n |-> [j \in DOMAIN t.columns |-> t.tot[j]],
     d |-> [j \in DOMAIN t.columns |-> t.tot[j] - t.cnt[j][j]]]

EmptySeries == [index |-> <<>>]

GroupsOf(frame) == {r.standardized_group : r \in frame}

\* the possible return values of the call on (frame, bl)
TransitionResults(frame, bl) ==
    LET groups == GroupsOf(frame)
        tables == [g \in groups |-> Crosstab(CountedRows(frame, bl, g))]
        eigs == [g \in groups |->
                    IF IsEmpty(tables[g]) THEN {<<>>} ELSE EigVectors(tables[g])]
    IN  IF \E g \in groups : ~IsSquare(tables[g])
            \* nx.DiGraph(transitions.values) rejects a non-square array
            \* (np.linalg.eig would, too): the exception ends the call
            THEN {[raised |-> "NetworkXError", result |-> <<>>]}
            ELSE {[raised |-> "no",
                   result |-> [g \in groups |->
                       [matrix |-> tables[g],
                        steady_state |-> IF IsEmpty(tables[g]) THEN EmptySeries
                                         ELSE SteadyState(tables[g], ev[g]),
                        average_duration |-> IF IsEmpty(tables[g]) THEN EmptySeries
                                             ELSE AverageDuration(tables[g])]]] :
                  ev \in {f \in [groups -> UNION {eigs[g] : g \in groups}] :
                             \A g \in groups : f[g] \in eigs[g]}}

(***************************************************************************)
(* Actions of the Markov component                                         *)
(***************************************************************************)
InitMarkov ==
    /\ tp_df = {}
    /\ tp_baselines \in BaselineChoices
    /\ group_data = <<>>
    /\ transition_matrices = [raised |-> "no", result |-> <<>>]
    /\ pcMarkov = "input"
    /\ BaseIdle
    /\ BreakIdle
    /\ PeakIdle
    /\ StatsIdle
    /\ VarIdle
    /\ CombineIdle
    /\ CorrIdle
    /\ TeamIdle

AddRow ==
    /\ pcMarkov = "input"
    /\ Cardinality(tp_df) < MaxRows
    /\ \E u \in Users, t \in Times, hr \in TpHeartRates :
          /\ \A r \in tp_df : ~(r.user_id = u /\ r.local_time = t)
          /\ tp_df' = tp_df \cup {[user_id |-> u, standardized_group |-> UserGroup[u],
                                  local_time |-> t, heart_rate |-> hr]}
    /\ UNCHANGED <<tp_baselines, group_data, transition_matrices, pcMarkov>>
    /\ UNCHANGED <<baseVars, breakVars, peakVars, statsVars, varVars, combineVars, corrVars, teamVars>>

CalculateTransitionProbabilities ==
    /\ pcMarkov = "input"
    /\ group_data' = [g \in GroupsOf(tp_df) |-> CountedRows(tp_df, tp_baselines, g)]
    /\ transition_matrices' \in TransitionResults(tp_df, tp_baselines)
    /\ pcMarkov' = "done"
    /\ UNCHANGED <<tp_df, tp_baselines>>
    /\ UNCHANGED <<baseVars, breakVars, peakVars, statsVars, varVars, combineVars, corrVars, teamVars>>

NextMarkov ==
    \/ AddRow
    \/ CalculateTransitionProbabilities

SpecMarkov == InitMarkov /\ [][NextMarkov]_vars

\* the same call on frames whose two users belong to two groups
AddGroupRow ==
    /\ pcMarkov = "input"
    /\ Cardinality(tp_df) < MaxRows
    /\ \E u \in Users, t \in Times, hr \in TpHeartRates :
          /\ \A r \in tp_df : ~(r.user_id = u /\ r.local_time = t)
          /\ tp_df' = tp_df \cup {[user_id |-> u, standardized_group |-> TeamGroup[u],
                                  local_time |-> t, heart_rate |-> hr]}
    /\ UNCHANGED <<tp_baselines, group_data, transition_matrices, pcMarkov>>
    /\ UNCHANGED <<baseVars, breakVars, peakVars, statsVars, varVars, combineVars, corrVars, teamVars>>

NextGroups ==
    \/ AddGroupRow
    \/ CalculateTransitionProbabilities

SpecGroups == InitMarkov /\ [][NextGroups]_vars

(***************************************************************************)
(* Actions of the break detector                                           *)
(***************************************************************************)
InitBreak ==
    /\ bk_df = {}
    /\ threshold_duration \in ThresholdDurations
    /\ stress_drop \in StressDrops
    /\ breaks = <<>>
    /\ in_break_log = <<>>
    /\ breaks_again = <<>>
    /\ pcBreak = "input"
    /\ BaseIdle
    /\ MarkovIdle
    /\ PeakIdle
    /\ StatsIdle
    /\ VarIdle
    /\ CombineIdle
    /\ CorrIdle
    /\ TeamIdle

AddStressRow ==
    /\ pcBreak = "input"
    /\ Cardinality(bk_df) < MaxBreakRows
    /\ \E u \in Users, x \in StressScores :
          \E t \in BreakTimes[u] :
              /\ \A r \in bk_df : ~(r.user_id = u /\ r.local_time = t)
              /\ bk_df' = bk_df \cup {[user_id |-> u, standardized_group |-> UserGroup[u],
                                      local_time |-> t, stress_score |-> x]}
    /\ UNCHANGED <<threshold_duration, stress_drop, breaks, in_break_log,
                   breaks_again, pcBreak>>
    /\ UNCHANGED <<baseVars, markovVars, peakVars, statsVars, varVars, combineVars, corrVars, teamVars>>

\* the whole call on a frame: per group and user, the final loop state
RunDetect(frame, threshold, sdrop) ==
    [g \in GroupsOf(frame) |->
        [u \in UsersIn(frame, g) |-> DetectUser(frame, g, u, threshold, sdrop)]]

EventsOf(run) == [g \in DOMAIN run |-> [u \in DOMAIN run[g] |-> run[g][u].events]]

\* variant in which the call consumes the rows of df
FrameConsumed(frame) == {}

\* df as the call leaves it: group_data is a boolean-mask selection and
\* user_data a .copy() of it (lines 11, 15), the new columns and the sort
\* go to the copy, nothing is written to df
FrameAfter(frame) == frame

DetectBreaks ==
    /\ pcBreak = "input"
    /\ LET run == RunDetect(bk_df, threshold_duration, stress_drop)
       IN  /\ breaks' = EventsOf(run)
           /\ in_break_log' = [g \in DOMAIN run |-> [u \in DOMAIN run[g] |-> run[g][u].log]]
    /\ bk_df' = FrameAfter(bk_df)
    /\ pcBreak' = "done"
    /\ UNCHANGED <<threshold_duration, stress_drop, breaks_again>>
    /\ UNCHANGED <<baseVars, markovVars, peakVars, statsVars, varVars, combineVars, corrVars, teamVars>>

\* a second call with the same arguments on the frame as left by the first
DetectBreaksAgain ==
    /\ pcBreak = "done"
    /\ breaks_again' = EventsOf(RunDetect(bk_df, threshold_duration, stress_drop))
    /\ bk_df' = FrameAfter(bk_df)
    /\ pcBreak' = "again"
    /\ UNCHANGED <<threshold_duration, stress_drop, breaks, in_break_log>>
    /\ UNCHANGED <<baseVars, markovVars, peakVars, statsVars, varVars, combineVars, corrVars, teamVars>>

NextBreak ==
    \/ AddStressRow
    \/ DetectBreaks
    \/ DetectBreaksAgain

SpecBreak == InitBreak /\ [][NextBreak]_vars

\* one user's series, sampled every DefaultThresholdDuration minutes, handed
\* to detect_breaks(df) with the default arguments
InitSeries ==
    /\ InitBreak
    /\ threshold_duration = DefaultThresholdDuration
    /\ stress_drop = DefaultStressDrop

AddSeriesRow ==
    /\ pcBreak = "input"
    /\ Cardinality(bk_df) < MaxSeriesRows
    /\ \E x \in SeriesScores :
          bk_df' = bk_df \cup {[user_id |-> UserOrder[1],
                                standardized_group |-> UserGroup[UserOrder[1]],
                                local_time |-> DefaultThresholdDuration * Cardinality(bk_df),
                                stress_score |-> x]}
    /\ UNCHANGED <<threshold_duration, stress_drop, breaks, in_break_log,
                   breaks_again, pcBreak>>
    /\ UNCHANGED <<baseVars, markovVars, peakVars, statsVars, varVars, combineVars, corrVars, teamVars>>

NextSeries ==
    \/ AddSeriesRow
    \/ DetectBreaks

SpecSeries == InitSeries /\ [][NextSeries]_vars

(***************************************************************************)
(* analysis/peak_analysis.py: detect_peaks (scipy.signal.find_peaks)       *)
(***************************************************************************)
MinOf(S) == CHOOSE m \in S : \A k \in S : m <= k
MaxOf(S) == CHOOSE m \in S : \A k \in S : m >= k

\* the local maxima of xs: a sample or flat run strictly above both
\* neighbours; a flat run is reported at its middle sample, rounded down.
\* The first and the last sample are never maxima.
LocalMaxima(xs) ==
    {(i + j) \div 2 : <<i, j>> \in
        {<<a, b>> \in (2..(Len(xs) - 1)) \X (2..(Len(xs) - 1)) :
            /\ a <= b
            /\ \A k \in a..b : xs[k] = xs[a]
            /\ xs[a - 1] < xs[a]
            /\ xs[b + 1] < xs[a]}}

\* peak_prominences: the lowest sample on each side before a sample higher
\* than the peak, the base being the one nearest to the peak
LeftReach(xs, pk) == MinOf({l \in 1..pk : \A k \in l..pk : xs[k] <= xs[pk]})
RightReach(xs, pk) == MaxOf({r \in pk..Len(xs) : \A k \in pk..r : xs[k] <= xs[pk]})
LeftMin(xs, pk) == MinOf({xs[k] : k \in LeftReach(xs, pk)..pk})
RightMin(xs, pk) == MinOf({xs[k] : k \in pk..RightReach(xs, pk)})
LeftBase(xs, pk) == MaxOf({k \in LeftReach(xs, pk)..pk : xs[k] = LeftMin(xs, pk)})
RightBase(xs, pk) == MinOf({k \in pk..RightReach(xs, pk) : xs[k] = RightMin(xs, pk)})
PeakProminence(xs, pk) == xs[pk] - Max(LeftMin(xs, pk), RightMin(xs, pk))

\* peak_widths at rel_height 0.5: the crossings of the level
\* xs[pk] - prominence / 2 on both sides, linearly interpolated;
\* a fraction n / d with d > 0.  h2 is twice the level.
LeftCrossing(xs, pk) ==
    LET h2 == 2 * xs[pk] - PeakProminence(xs, pk)
        lb == LeftBase(xs, pk)
        i == MaxOf({k \in lb..pk : k = lb \/ 2 * xs[k] <= h2})
    IN  IF 2 * xs[i] < h2
            THEN [n |-> i * 2 * (xs[i + 1] - xs[i]) + (h2 - 2 * xs[i]),
                  d |-> 2 * (xs[i + 1] - xs[i])]
            ELSE [n |-> i, d |-> 1]

RightCrossing(xs, pk) ==
    LET h2 == 2 * xs[pk] - PeakProminence(xs, pk)
        rb == RightBase(xs, pk)
        i == MinOf({k \in pk..rb : k = rb \/ 2 * xs[k] <= h2})
    IN  IF 2 * xs[i] < h2
            THEN [n |-> i * 2 * (xs[i - 1] - xs[i]) - (h2 - 2 * xs[i]),
                  d |-> 2 * (xs[i - 1] - xs[i])]
            ELSE [n |-> i, d |-> 1]

PeakWidth(xs, pk) ==
    LET l == LeftCrossing(xs, pk)
        r == RightCrossing(xs, pk)
    IN  [n |-> r.n * l.d - l.n * r.d, d |-> l.d * r.d]

\* find_peaks(x, prominence=prom, width=wid): the indices, ascending
FindPeaks(xs, prom, wid) ==
    LET keep == [k \in DOMAIN xs |->
                    /\ k \in LocalMaxima(xs)
                    /\ PeakProminence(xs, k) >= prom
                    /\ PeakWidth(xs, k).n >= wid * PeakWidth(xs, k).d]
    IN  SelectSeqIdx(keep, 1, Len(xs))

\* Series.mean() (skipna): the mean n / d of the values that are not null,
\* NaN when there is none
MeanSkipNa(vals) ==
    LET keep == [k \in DOMAIN vals |-> ~vals[k].nan]
        idx == SelectSeqIdx(keep, 1, Len(vals))
    IN  IF Len(idx) = 0 THEN [nan |-> TRUE, n |-> 0, d |-> 1]
        ELSE [nan |-> FALSE, n |-> SumSeq([k \in DOMAIN idx |-> vals[idx[k]].v]),
              d |-> Len(idx)]

\* variant that is handed the whole series instead of the rows from the peak on
FindRecoveryEndWholeSeries(ud, pk, peak_value) ==
    LET m == Len(ud)
        total == SumSeq([k \in 1..m |-> ud[k].stress_score])
        recovery_data == {k \in 1..Len(ud) :
                             5 * m * ud[k].stress_score <= 4 * total + m * peak_value}
    IN  IF recovery_data # {} THEN MinOf(recovery_data) ELSE 0

\* find_recovery_end(data, peak_value) on the rows pk..Len(ud): the row index
\* of the first sample with stress <= baseline + (peak_value - baseline) * 0.2,
\* baseline the mean of these rows; 0 stands for None.
\* x <= 0.8 * T / m + 0.2 * peak  <=>  5 * m * x <= 4 * T + m * peak
FindRecoveryEnd(ud, pk, peak_value) ==
    LET m == Len(ud) - pk + 1
        total == SumSeq([k \in 1..m |-> ud[pk + k - 1].stress_score])
        recovery_data == {k \in pk..Len(ud) :
                             5 * m * ud[k].stress_score <= 4 * total + m * peak_value}
    IN  IF recovery_data # {} THEN MinOf(recovery_data) ELSE 0

\* the rows appended to group_peaks for one user (lines 15-41)
UserPeaks(frame, g, u, prom, wid) ==
    LET ud == UserData(frame, g, u)
        xs == [k \in DOMAIN ud |-> ud[k].stress_score]
        found == FindPeaks(xs, prom, wid)
    IN  [n \in DOMAIN found |->
            LET pk == found[n]
                recovery_end == FindRecoveryEnd(ud, pk, ud[pk].stress_score)
            IN  [user_id |-> u,
                 peak_time |-> ud[pk].local_time,
                 peak_value |-> ud[pk].stress_score,
                 prominence |-> PeakProminence(xs, pk),
                 width |-> PeakWidth(xs, pk),
                 recovery_time |->
                     IF recovery_end # 0
                         THEN Val(ud[recovery_end].local_time - ud[pk].local_time)
                         ELSE NaN]]

RECURSIVE ConcatUsers(_, _, _, _, _, _)
ConcatUsers(frame, g, k, prom, wid, acc) ==
    IF k > Len(UserOrder) THEN acc
    ELSE ConcatUsers(frame, g, k + 1, prom, wid,
                     acc \o UserPeaks(frame, g, UserOrder[k], prom, wid))

\* detect_peaks: per group the table of the peaks of its users
PeaksData(frame, prom, wid) ==
    [g \in GroupsOf(frame) |-> ConcatUsers(frame, g, 1, prom, wid, <<>>)]

\* rows of a peak table whose recovery_time is not null (dropna)
ValidRecoveries(peaks_df) ==
    LET keep == [k \in DOMAIN peaks_df |-> ~peaks_df[k].recovery_time.nan]
        idx == SelectSeqIdx(keep, 1, Len(peaks_df))
    IN  [k \in DOMAIN idx |-> peaks_df[idx[k]]]

\* Series.median(): twice the median, NaN on an empty series
Median2(vals) ==
    LET srt == SortInts(vals)
        n == Len(srt)
    IN  IF n = 0 THEN NaN
        ELSE IF n % 2 = 1 THEN Val(2 * srt[(n + 1) \div 2])
        ELSE Val(srt[n \div 2] + srt[n \div 2 + 1])

\* Series.std() squared (ddof = 1): n / d, NaN with fewer than two values
Variance(vals) ==
    LET n == Len(vals)
        sm == SumSeq(vals)
        sq == SumSeq([k \in DOMAIN vals |-> vals[k] * vals[k]])
    IN  IF n < 2 THEN [nan |-> TRUE, n |-> 0, d |-> 1]
        ELSE [nan |-> FALSE, n |-> n * sq - sm * sm, d |-> n * (n - 1)]

MinutesPerHour == 60
HourOf(t) == t \div MinutesPerHour

\* calculate_recovery_metrics: groups with an empty table are skipped
RecoveryMetrics(pd) ==
    [g \in {h \in DOMAIN pd : Len(pd[h]) > 0} |->
        LET valid == ValidRecoveries(pd[g])
            times == [k \in DOMAIN valid |-> valid[k].recovery_time.v]
            hours == {HourOf(valid[k].peak_time) : k \in DOMAIN valid}
        IN  [median_recovery |-> Median2(times),
             recovery_variability |-> Variance(times),
             recovery_success_rate |-> [n |-> 100 * Len(valid), d |-> Len(pd[g])],
             recovery_by_time |->
                 [h \in hours |->
                     LET keep == [k \in DOMAIN valid |-> HourOf(valid[k].peak_time) = h]
                         idx == SelectSeqIdx(keep, 1, Len(valid))
                     IN  MeanSkipNa([k \in DOMAIN idx |-> valid[idx[k]].recovery_time])]]]

\* analyze_peak_patterns (the numeric summaries)
PeakPatterns(pd) ==
    [g \in {h \in DOMAIN pd : Len(pd[h]) > 0} |->
        [average_peak_value |->
             MeanSkipNa([k \in DOMAIN pd[g] |-> Val(pd[g][k].peak_value)]),
         peak_frequency |->
             [n |-> Len(pd[g]),
              d |-> Cardinality({pd[g][k].user_id : k \in DOMAIN pd[g]})],
         average_recovery |->
             MeanSkipNa([k \in DOMAIN pd[g] |-> pd[g][k].recovery_time]),
         typical_prominence |->
             MeanSkipNa([k \in DOMAIN pd[g] |-> Val(pd[g][k].prominence)])]]

(***************************************************************************)
(* Actions of the peak detector                                            *)
(***************************************************************************)
InitPeak ==
    /\ pk_df = {}
    /\ prominence \in Prominences
    /\ width \in Widths
    /\ peaks_data = <<>>
    /\ recovery_metrics = NoMetrics
    /\ patterns = NoMetrics
    /\ pcPeak = "input"
    /\ BaseIdle
    /\ MarkovIdle
    /\ BreakIdle
    /\ StatsIdle
    /\ VarIdle
    /\ CombineIdle
    /\ CorrIdle
    /\ TeamIdle

SamplesOf(frame, u) == Cardinality({r \in frame : r.user_id = u})

AddPeakRow ==
    /\ pcPeak = "input"
    /\ Cardinality(pk_df) < MaxPeakRows
    /\ \E u \in Users, x \in StressScores :
          /\ SamplesOf(pk_df, u) < MaxUserSamples[u]
          /\ pk_df' = pk_df \cup {[user_id |-> u, standardized_group |-> UserGroup[u],
                                  local_time |-> SampleStep * SamplesOf(pk_df, u),
                                  stress_score |-> x]}
    /\ UNCHANGED <<prominence, width, peaks_data, recovery_metrics, patterns, pcPeak>>
    /\ UNCHANGED <<baseVars, markovVars, breakVars, statsVars, varVars, combineVars, corrVars, teamVars>>

DetectPeaks ==
    /\ pcPeak = "input"
    /\ peaks_data' = PeaksData(pk_df, prominence, width)
    /\ pcPeak' = "detected"
    /\ UNCHANGED <<pk_df, prominence, width, recovery_metrics, patterns>>
    /\ UNCHANGED <<baseVars, markovVars, breakVars, statsVars, varVars, combineVars, corrVars, teamVars>>

CalculateRecoveryMetrics ==
    /\ pcPeak = "detected"
    /\ recovery_metrics' = RecoveryMetrics(peaks_data)
    /\ UNCHANGED <<pk_df, prominence, width, peaks_data, patterns, pcPeak>>
    /\ UNCHANGED <<baseVars, markovVars, breakVars, statsVars, varVars, combineVars, corrVars, teamVars>>

AnalyzePeakPatterns ==
    /\ pcPeak = "detected"
    /\ patterns' = PeakPatterns(peaks_data)
    /\ UNCHANGED <<pk_df, prominence, width, peaks_data, recovery_metrics, pcPeak>>
    /\ UNCHANGED <<baseVars, markovVars, breakVars, statsVars, varVars, combineVars, corrVars, teamVars>>

NextPeak ==
    \/ AddPeakRow
    \/ DetectPeaks
    \/ CalculateRecoveryMetrics
    \/ AnalyzePeakPatterns

SpecPeak == InitPeak /\ [][NextPeak]_vars

(***************************************************************************)
(* analysis/statistical_tests.py: run_time_comparisons                     *)
(***************************************************************************)
\* df['local_time'].dt.strftime('%H:%M'): the time of day, without the date
TimeBlock(r) == r.time
\* df['local_time'].dt.date
DateOf(r) == r.date

\* df['standardized_group'].unique()
GroupSeq(frame) ==
    LET keep == [k \in DOMAIN GroupOrder |-> GroupOrder[k] \in GroupsOf(frame)]
        idx == SelectSeqIdx(keep, 1, Len(GroupOrder))
    IN  [k \in DOMAIN idx |-> GroupOrder[idx[k]]]

RECURSIVE SetToSortedSeq(_)
SetToSortedSeq(S) ==
    IF S = {} THEN <<>> ELSE <<MinOf(S)>> \o SetToSortedSeq(S \ {MinOf(S)})

\* sorted(df['time_block'].unique())
TimeBlocks(frame) == SetToSortedSeq({TimeBlock(r) : r \in frame})

BlockData(frame, tb, g) == {r \in frame : TimeBlock(r) = tb /\ r.standardized_group = g}

\* variant that counts the raw samples of the block
SampleSizeRaw(frame, tb, g) == Cardinality(BlockData(frame, tb, g))

\* len(group_data['date'].unique())
SampleSize(frame, tb, g) == Cardinality({DateOf(r) : r \in BlockData(frame, tb, g)})

\* a test statistic: undefined, or the statistic of a test with p-value p
NaNStat == [nan |-> TRUE, p |-> 0]
Stat(p) == [nan |-> FALSE, p |-> p]

\* group_data['stress_score'].median(), doubled
RECURSIVE StressValues(_)
StressValues(rows) ==
    IF rows = {} THEN <<>>
    ELSE LET r == CHOOSE q \in rows : TRUE
         IN  <<r.stress_score>> \o StressValues(rows \ {r})

BlockMedian(frame, tb, g) == Median2(StressValues(BlockData(frame, tb, g)))

\* the pairs (i, j), i < j, in the order of the nested loops
PairSeq(n) ==
    LET pairs == {<<i, j>> \in (1..n) \X (1..n) : i < j}
        rank(q) == q[1] * (n + 1) + q[2]
        ranks == SetToSortedSeq({rank(q) : q \in pairs})
    IN  [k \in DOMAIN ranks |-> CHOOSE q \in pairs : rank(q) = ranks[k]]

\* variant that tests the pairwise p-value against the uncorrected 0.05
IsSignificantPairUncorrected(pval, n) == pval < Alpha

\* p < 0.05 / (len(groups) * (len(groups) - 1) / 2)
IsSignificantPair(pval, n) == pval * (n * (n - 1)) < 2 * Alpha

\* the post-hoc loop of one block (lines 87-102) when mannwhitneyu returns
\* mw[k] for the k-th pair
PostHoc(frame, groups, tb, mw) ==
    LET pairs == PairSeq(Len(groups))
        keep == [k \in DOMAIN pairs |->
                    /\ Cardinality(BlockData(frame, tb, groups[pairs[k][1]])) >= MinSamples
                    /\ Cardinality(BlockData(frame, tb, groups[pairs[k][2]])) >= MinSamples
                    /\ IsSignificantPair(mw[k], Len(groups))]
        idx == SelectSeqIdx(keep, 1, Len(pairs))
    IN  [k \in DOMAIN idx |->
            [time_block |-> tb,
             group1 |-> groups[pairs[idx[k]][1]],
             group2 |-> groups[pairs[idx[k]][2]],
             p_value |-> mw[idx[k]]]]

\* one iteration of the block loop (lines 38-102).  kw is the p-value
\* stats.kruskal returns and mw[k] the one stats.mannwhitneyu returns for the
\* k-th pair; stats.kruskal raises ValueError when handed a single group.
BlockOutcome(frame, groups, tb, kw, mw) ==
    LET sizes == [k \in DOMAIN groups |-> SampleSize(frame, tb, groups[k])]
        sufficient_data == \A k \in DOMAIN groups : sizes[k] >= MinSamples
    IN  IF ~sufficient_data
            THEN [raised |-> "no", time_block |-> tb, sizes |-> sizes,
                  h_statistic |-> NaNStat, p_value |-> NaN, effect_size |-> NaNStat,
                  medians |-> [k \in DOMAIN groups |-> NaN],
                  significant |-> <<>>]
        ELSE IF Len(groups) < 2
            THEN [raised |-> "ValueError", time_block |-> tb, sizes |-> sizes,
                  h_statistic |-> NaNStat, p_value |-> NaN, effect_size |-> NaNStat,
                  medians |-> [k \in DOMAIN groups |-> NaN],
                  significant |-> <<>>]
        ELSE [raised |-> "no", time_block |-> tb, sizes |-> sizes,
              h_statistic |-> Stat(kw), p_value |-> Val(kw), effect_size |-> Stat(kw),
              medians |-> [k \in DOMAIN groups |-> BlockMedian(frame, tb, groups[k])],
              significant |-> IF kw < Alpha THEN PostHoc(frame, groups, tb, mw) ELSE <<>>]

\* the outcomes of one block over all p-values the tests may return
BlockOutcomes(frame, groups, tb) ==
    {BlockOutcome(frame, groups, tb, kw, mw) :
        kw \in UncorrectedPValues, mw \in [DOMAIN PairSeq(Len(groups)) -> PValues]}

\* the results dict after one more block
AppendBlock(res, groups, o) ==
    [raised |-> "no",
     time_blocks |-> Append(res.time_blocks, o.time_block),
     h_statistic |-> Append(res.h_statistic, o.h_statistic),
     p_value |-> Append(res.p_value, o.p_value),
     effect_size |-> Append(res.effect_size, o.effect_size),
     group_medians |-> [g \in DOMAIN res.group_medians |->
         Append(res.group_medians[g],
                o.medians[CHOOSE k \in DOMAIN groups : groups[k] = g])],
     significant_differences |-> res.significant_differences \o o.significant,
     sample_sizes |-> [g \in DOMAIN res.sample_sizes |->
         Append(res.sample_sizes[g],
                o.sizes[CHOOSE k \in DOMAIN groups : groups[k] = g])]]

RECURSIVE BlockLoop(_, _, _, _, _)
BlockLoop(frame, groups, blocks, k, res) ==
    IF k > Len(blocks) THEN {res}
    ELSE UNION {IF o.raised # "no" THEN {[raised |-> o.raised]}
                ELSE BlockLoop(frame, groups, blocks, k + 1, AppendBlock(res, groups, o)) :
                o \in BlockOutcomes(frame, groups, blocks[k])}

\* everything run_time_comparisons(df) may return or raise
TimeComparisons(frame) ==
    LET groups == GroupSeq(frame)
        names == {groups[k] : k \in DOMAIN groups}
    IN  BlockLoop(frame, groups, TimeBlocks(frame), 1,
                  [raised |-> "no", time_blocks |-> <<>>, h_statistic |-> <<>>,
                   p_value |-> <<>>, effect_size |-> <<>>,
                   group_medians |-> [g \in names |-> <<>>],
                   significant_differences |-> <<>>,
                   sample_sizes |-> [g \in names |-> <<>>]])

(***************************************************************************)
(* analysis/statistical_tests.py: analyze_group_differences                *)
(***************************************************************************)
\* pd.to_datetime(df['time_block'], format='%H:%M').dt.hour
HourOfBlock(tb) == tb \div 100

WorkStartHour == 7
WorkEndHour == 17
\* df[(df['hour'] >= 7) & (df['hour'] <= 17)]
WorkingRows(frame) ==
    {r \in frame : /\ HourOfBlock(TimeBlock(r)) >= WorkStartHour
                   /\ HourOfBlock(TimeBlock(r)) <= WorkEndHour}

GroupRows(frame, tb, g) == {r \in frame : TimeBlock(r) = tb /\ r.standardized_group = g}
OtherRows(frame, tb, g) == {r \in frame : TimeBlock(r) = tb /\ r.standardized_group # g}

\* variant of the gate that counts distinct days on each side
GatePassesByDays(frame, tb, g) ==
    /\ Cardinality({DateOf(r) : r \in GroupRows(frame, tb, g)}) >= MinSamples
    /\ Cardinality({DateOf(r) : r \in OtherRows(frame, tb, g)}) >= MinSamples

\* len(group_data) >= 5 and len(other_data) >= 5
GatePasses(frame, tb, g) ==
    /\ Cardinality(GroupRows(frame, tb, g)) >= MinSamples
    /\ Cardinality(OtherRows(frame, tb, g)) >= MinSamples

\* the dict returned when mannwhitneyu returns pv[tb][g] for group g at tb
GroupDifference(frame, pv) ==
    LET work == WorkingRows(frame)
        blocks == {TimeBlock(r) : r \in work}
    IN  [g \in Sites |->
            [tb \in {b \in blocks : GatePasses(work, b, g) /\ pv[b][g] < Alpha} |->
                LET gm == Median2(StressValues(GroupRows(work, tb, g)))
                    om == Median2(StressValues(OtherRows(work, tb, g)))
                IN  [p_value |-> pv[tb][g],
                     group_median |-> gm,
                     others_median |-> om,
                     difference |-> gm.v - om.v]]]

\* everything analyze_group_differences(df) may return or raise, given
\* the columns df has
GroupDifferences(frame, columns) ==
    IF "time_block" \notin columns
        THEN {[raised |-> "KeyError", result |-> <<>>]}
    ELSE {[raised |-> "no", result |-> GroupDifference(frame, pv)] :
            pv \in [{TimeBlock(r) : r \in WorkingRows(frame)} -> [Sites -> UncorrectedPValues]]}

(***************************************************************************)
(* Actions of the statistical tests                                        *)
(***************************************************************************)
InitStats ==
    /\ st_df = {}
    /\ st_columns = CleanedColumns
    /\ time_results = NoResults
    /\ group_differences = NoResults
    /\ pcStats = "input"
    /\ BaseIdle
    /\ MarkovIdle
    /\ BreakIdle
    /\ PeakIdle
    /\ VarIdle
    /\ CombineIdle
    /\ CorrIdle
    /\ TeamIdle

AddSamples ==
    /\ pcStats = "input"
    /\ \E g \in Sites, t \in TimesOfDay, pf \in Profiles :
          /\ \A r \in st_df : ~(r.standardized_group = g /\ r.time = t)
          /\ st_df' = st_df \cup
                {[standardized_group |-> g, user_id |-> j, date |-> d, time |-> t,
                  stress_score |-> SiteStress[g]] :
                    d \in 1..pf.days, j \in 1..pf.per_day}
    /\ UNCHANGED <<st_columns, time_results, group_differences, pcStats>>
    /\ UNCHANGED <<baseVars, markovVars, breakVars, peakVars, varVars, combineVars, corrVars, teamVars>>

\* lines 13 and 16 add the columns time_block and date to the caller's frame
RunTimeComparisons ==
    /\ pcStats = "input"
    /\ \E r \in TimeComparisons(st_df) : time_results' = r
    /\ st_columns' = st_columns \cup {"time_block", "date"}
    /\ pcStats' = "compared"
    /\ UNCHANGED <<st_df, group_differences>>
    /\ UNCHANGED <<baseVars, markovVars, breakVars, peakVars, varVars, combineVars, corrVars, teamVars>>

\* line 110 reads time_block and adds the column hour to the caller's frame
AnalyzeGroupDifferences ==
    /\ pcStats \in {"input", "compared"}
    /\ \E r \in GroupDifferences(st_df, st_columns) : group_differences' = r
    /\ st_columns' = IF "time_block" \in st_columns
                        THEN st_columns \cup {"hour"} ELSE st_columns
    /\ pcStats' = "analyzed"
    /\ UNCHANGED <<st_df, time_results>>
    /\ UNCHANGED <<baseVars, markovVars, breakVars, peakVars, varVars, combineVars, corrVars, teamVars>>

NextStats ==
    \/ AddSamples
    \/ RunTimeComparisons
    \/ AnalyzeGroupDifferences

SpecStats == InitStats /\ [][NextStats]_vars

\* the same calls on frames with samples a few minutes apart
AddBlockSamples ==
    /\ pcStats = "input"
    /\ \E g \in BlockSites, t \in BlockTimes, pf \in BlockProfiles :
          /\ \A r \in st_df : ~(r.standardized_group = g /\ r.time = t)
          /\ st_df' = st_df \cup
                {[standardized_group |-> g, user_id |-> j, date |-> d, time |-> t,
                  stress_score |-> SiteStress[g]] :
                    d \in 1..pf.days, j \in 1..pf.per_day}
    /\ UNCHANGED <<st_columns, time_results, group_differences, pcStats>>
    /\ UNCHANGED <<baseVars, markovVars, breakVars, peakVars, varVars, combineVars, corrVars, teamVars>>

NextBlocks ==
    \/ AddBlockSamples
    \/ RunTimeComparisons
    \/ AnalyzeGroupDifferences

SpecBlocks == InitStats /\ [][NextBlocks]_vars

(***************************************************************************)
(* analysis/pattern_analysis.py: calculate_group_variance                  *)
(* analysis/group_analysis.py: compare_group_variability                   *)
(*                                                                         *)
(* A standard deviation is kept as its square, the fraction n / d; a mean  *)
(* of standard deviations is kept as the list of the squares it averages.  *)
(* Every user of the frames belongs to one group, so the loop over pairs   *)
(* of groups at the end of compare_group_variability has nothing to do.    *)
(***************************************************************************)
NaNStd == [nan |-> TRUE, n |-> 0, d |-> 1]
ZeroStd == [nan |-> FALSE, n |-> 0, d |-> 1]
NaNMean == [nan |-> TRUE, terms |-> <<>>]
ZeroMean == [nan |-> FALSE, terms |-> <<ZeroStd>>]

VarGroups(frame) == {r.standardized_group : r \in frame}

\* groupby(['date', 'user_id']), groupby('date'), groupby('user_id')
ByDateUser(gd) ==
    {{r \in gd : r.date = k[1] /\ r.user_id = k[2]} :
        k \in {<<r.date, r.user_id>> : r \in gd}}
ByDate(gd) == {{r \in gd : r.date = dt} : dt \in {r.date : r \in gd}}
ByUser(gd) == {{r \in gd : r.user_id = u} : u \in {r.user_id : r \in gd}}

RECURSIVE CellSeq(_)
CellSeq(cells) ==
    IF cells = {} THEN <<>>
    ELSE LET c == CHOOSE x \in cells : TRUE
         IN  <<c>> \o CellSeq(cells \ {c})

\* groupby(...)['stress_score'].std().mean(): the mean skips the NaN of the
\* one-sample cells and is NaN itself when nothing is left
MeanOfStds(cells) ==
    LET cs == CellSeq(cells)
        stds == [k \in DOMAIN cs |-> Variance(StressValues(cs[k]))]
        keep == SelectSeq(stds, LAMBDA x : ~x.nan)
    IN  IF keep = <<>> THEN NaNMean ELSE [nan |-> FALSE, terms |-> keep]

\* groupby(...)['stress_score'].mean().std(): each mean is sum / count, put
\* on the common denominator of the counts
StdOfMeans(cells) ==
    LET cs == CellSeq(cells)
        n == Len(cs)
        den == ProdSeq([k \in DOMAIN cs |-> Cardinality(cs[k])])
        ms == [k \in DOMAIN cs |->
                  SumSeq(StressValues(cs[k])) * (den \div Cardinality(cs[k]))]
        sm == SumSeq(ms)
        sq == SumSeq([k \in DOMAIN ms |-> ms[k] * ms[k]])
    IN  IF n < 2 THEN NaNStd
        ELSE [nan |-> FALSE, n |-> n * sq - sm * sm, d |-> n * (n - 1) * den * den]

\* calculate_group_variance
GroupVariance(frame) ==
    [g \in VarGroups(frame) |->
        LET gd == {r \in frame : r.standardized_group = g}
        IN  [within_day_variance  |-> MeanOfStds(ByDateUser(gd)),
             between_day_variance |-> StdOfMeans(ByDate(gd)),
             user_variance        |-> StdOfMeans(ByUser(gd)),
             total_variance       |-> Variance(StressValues(gd))]]

\* compare_group_variability; the stability score is kept as the two
\* components it is computed from
GroupVariability(frame) ==
    [g \in VarGroups(frame) |->
        LET gd == {r \in frame : r.standardized_group = g}
            mean_std == MeanOfStds(ByDate(gd))
            intraday_var == IF mean_std.nan THEN ZeroMean ELSE mean_std
            interday_var == IF Cardinality(ByDate(gd)) > 1
                            THEN StdOfMeans(ByDate(gd)) ELSE ZeroStd
            user_var == IF Cardinality(ByUser(gd)) > 1
                        THEN StdOfMeans(ByUser(gd)) ELSE ZeroStd
        IN  [intraday_variability |-> intraday_var,
             interday_variability |-> interday_var,
             user_variability     |-> user_var,
             stability_score      |-> <<intraday_var, interday_var>>]]

InitVar ==
    /\ var_df = {}
    /\ variance_scores = <<>>
    /\ comparisons = <<>>
    /\ pcVar = "input"
    /\ BaseIdle
    /\ MarkovIdle
    /\ BreakIdle
    /\ PeakIdle
    /\ StatsIdle
    /\ CombineIdle
    /\ CorrIdle
    /\ TeamIdle

AddVarRow ==
    /\ pcVar = "input"
    /\ Cardinality(var_df) < MaxVarRows
    /\ \E u \in Users, dt \in VarDates, tm \in VarTimes, s \in StressScores :
          /\ \A r \in var_df : ~(r.user_id = u /\ r.date = dt /\ r.time = tm)
          /\ var_df' = var_df \cup
                 {[standardized_group |-> UserGroup[u], user_id |-> u,
                   date |-> dt, time |-> tm, stress_score |-> s]}
    /\ UNCHANGED <<variance_scores, comparisons, pcVar>>
    /\ UNCHANGED <<baseVars, markovVars, breakVars, peakVars, statsVars, combineVars, corrVars, teamVars>>

CalculateGroupVariance ==
    /\ pcVar \in {"input", "variability"}
    /\ variance_scores' = GroupVariance(var_df)
    /\ pcVar' = IF pcVar = "input" THEN "variance" ELSE "both"
    /\ UNCHANGED <<var_df, comparisons>>
    /\ UNCHANGED <<baseVars, markovVars, breakVars, peakVars, statsVars, combineVars, corrVars, teamVars>>

CompareGroupVariability ==
    /\ pcVar \in {"input", "variance"}
    /\ comparisons' = GroupVariability(var_df)
    /\ pcVar' = IF pcVar = "input" THEN "variability" ELSE "both"
    /\ UNCHANGED <<var_df, variance_scores>>
    /\ UNCHANGED <<baseVars, markovVars, breakVars, peakVars, statsVars, combineVars, corrVars, teamVars>>

NextVar ==
    \/ AddVarRow
    \/ CalculateGroupVariance
    \/ CompareGroupVariability

SpecVar == InitVar /\ [][NextVar]_vars

(***************************************************************************)
(* analysis/metrics.py: create_monthly_biometric_summaries,                *)
(* combine_productivity_biometrics; data/loaders.py: load_cask_data        *)
(*                                                                         *)
(* Of the aggregated columns the mean and the standard deviation of the    *)
(* stress score and the number of distinct users are kept; of the          *)
(* productivity columns, receipts.                                         *)
(***************************************************************************)
\* str.upper() on the names that occur
ToUpper(name) ==
    CASE name = "kb3" -> "KB3"
      [] name = "nops" -> "NOPS"
      [] OTHER -> name

\* position of a group name in sorted order
NameRank(name) ==
    CASE name = "DALMUIR" -> 1
      [] name = "KB3" -> 2
      [] name = "KILMALID" -> 3
      [] OTHER -> 4

KeyOf(r) == <<r.year, r.month, r.standardized_group>>
CaskKeyOf(r) == <<r.year, r.month, r.site>>

KeyLess(a, b) ==
    \/ a[1] < b[1]
    \/ a[1] = b[1] /\ a[2] < b[2]
    \/ a[1] = b[1] /\ a[2] = b[2] /\ NameRank(a[3]) < NameRank(b[3])

RECURSIVE SortKeys(_)
SortKeys(K) ==
    IF K = {} THEN <<>>
    ELSE LET m == CHOOSE a \in K : \A b \in K \ {a} : KeyLess(a, b)
         IN  <<m>> \o SortKeys(K \ {m})

\* df.groupby(['year', 'month', 'standardized_group']).agg(...).reset_index()
MonthlySummaries(frame) ==
    LET ks == SortKeys({KeyOf(r) : r \in frame})
    IN  [i \in DOMAIN ks |->
            LET cell == {r \in frame : KeyOf(r) = ks[i]}
            IN  [year |-> ks[i][1], month |-> ks[i][2],
                 standardized_group |-> ks[i][3],
                 stress_score_mean |-> [n |-> SumSeq(StressValues(cell)),
                                        d |-> Cardinality(cell)],
                 stress_score_std |-> Variance(StressValues(cell)),
                 user_id_nunique |-> Cardinality({r.user_id : r \in cell})]]

\* load_cask_data on one line of the file: upper-case the site, keep the
\* valid sites
LoadCaskRow(raw) ==
    LET site == ToUpper(raw.site)
    IN  IF site \in Sites THEN <<[raw EXCEPT !.site = site]>> ELSE <<>>

\* one row of the merge: the columns of both sides and the ratio
\* receipts / stress_score_mean as a fraction
MergedRow(l, r) ==
    [year |-> l.year, month |-> l.month,
     standardized_group |-> l.standardized_group,
     stress_score_mean |-> l.stress_score_mean,
     stress_score_std |-> l.stress_score_std,
     user_id_nunique |-> l.user_id_nunique,
     site |-> r.site, receipts |-> r.receipts,
     productivity_stress_ratio |->
         [n |-> r.receipts * l.stress_score_mean.d, d |-> l.stress_score_mean.n]]

\* rows of the right side with the key of a left row
MatchesOf(l, right) ==
    LET hit == SelectSeq(right, LAMBDA r : CaskKeyOf(r) = KeyOf(l))
    IN  [k \in DOMAIN hit |-> MergedRow(l, hit[k])]

\* pd.merge(..., how='inner'): left order, every matching pair
RECURSIVE InnerMerge(_, _)
InnerMerge(left, right) ==
    IF left = <<>> THEN <<>>
    ELSE MatchesOf(Head(left), right) \o InnerMerge(Tail(left), right)

\* combine_productivity_biometrics
CombinedData(mb, cask) ==
    LET left == [k \in DOMAIN mb |->
                    [mb[k] EXCEPT !.standardized_group = ToUpper(@)]]
        right == [k \in DOMAIN cask |-> [cask[k] EXCEPT !.site = ToUpper(@)]]
    IN  InnerMerge(left, right)

InitCombine ==
    /\ biometric_df = {}
    /\ cask_df = <<>>
    /\ monthly_summaries = <<>>
    /\ combined_data = <<>>
    /\ pcCombine = "input"
    /\ BaseIdle
    /\ MarkovIdle
    /\ BreakIdle
    /\ PeakIdle
    /\ StatsIdle
    /\ VarIdle
    /\ CorrIdle
    /\ TeamIdle

AddBiometricRow ==
    /\ pcCombine = "input"
    /\ Cardinality(biometric_df) < MaxBioRows
    /\ \E y \in Years, m \in Months, g \in BioGroups, u \in Users, s \in BioStress :
          biometric_df' = biometric_df \cup
              {[year |-> y, month |-> m, standardized_group |-> g,
                user_id |-> u, stress_score |-> s]}
    /\ UNCHANGED <<cask_df, monthly_summaries, combined_data, pcCombine>>
    /\ UNCHANGED <<baseVars, markovVars, breakVars, peakVars, statsVars, varVars, corrVars, teamVars>>

AddCaskRow ==
    /\ pcCombine = "input"
    /\ Len(cask_df) < MaxCaskRows
    /\ \E y \in Years, m \in Months, st \in RawSites, rc \in Receipts :
          cask_df' = cask_df \o
              LoadCaskRow([year |-> y, month |-> m, site |-> st, receipts |-> rc])
    /\ UNCHANGED <<biometric_df, monthly_summaries, combined_data, pcCombine>>
    /\ UNCHANGED <<baseVars, markovVars, breakVars, peakVars, statsVars, varVars, corrVars, teamVars>>

CreateMonthlyBiometricSummaries ==
    /\ pcCombine = "input"
    /\ monthly_summaries' = MonthlySummaries(biometric_df)
    /\ pcCombine' = "summarised"
    /\ UNCHANGED <<biometric_df, cask_df, combined_data>>
    /\ UNCHANGED <<baseVars, markovVars, breakVars, peakVars, statsVars, varVars, corrVars, teamVars>>

CombineProductivityBiometrics ==
    /\ pcCombine = "summarised"
    /\ combined_data' = CombinedData(monthly_summaries, cask_df)
    /\ pcCombine' = "combined"
    /\ UNCHANGED <<biometric_df, cask_df, monthly_summaries>>
    /\ UNCHANGED <<baseVars, markovVars, breakVars, peakVars, statsVars, varVars, corrVars, teamVars>>

NextCombine ==
    \/ AddBiometricRow
    \/ AddCaskRow
    \/ CreateMonthlyBiometricSummaries
    \/ CombineProductivityBiometrics

SpecCombine == InitCombine /\ [][NextCombine]_vars

(***************************************************************************)
(* analysis/metrics.py: analyze_productivity_correlations                  *)
(*                                                                         *)
(* A correlation coefficient r is kept as the three integers it is made    *)
(* of: r = cov / sqrt(dx * dy).  NaNCorr is the float NaN: the content of  *)
(* a cell of the empty matrices and the result of pearsonr on a constant   *)
(* input.                                                                  *)
(***************************************************************************)
PhysicalMetrics == <<"heart_rate_mean", "stress_mean">>
ProductivityMetrics == <<"receipts", "efficiency_ratio">>

NaNCorr == [nan |-> TRUE, cov |-> 0, dx |-> 1, dy |-> 1]
NaNPValue == [nan |-> TRUE, n |-> 0]

\* group_data[[phys_metric, prod_metric]].dropna()
ValidData(gd, pm, qm) == SelectSeq(gd, LAMBDA r : ~r[pm].nan /\ ~r[qm].nan)

\* stats.pearsonr: NaN when one of the inputs is constant
PearsonR(xs, ys) ==
    LET n == Len(xs)
        sx == SumSeq(xs)
        sy == SumSeq(ys)
        sxy == SumSeq([k \in DOMAIN xs |-> xs[k] * ys[k]])
        sxx == SumSeq([k \in DOMAIN xs |-> xs[k] * xs[k]])
        syy == SumSeq([k \in DOMAIN ys |-> ys[k] * ys[k]])
        dx == n * sxx - sx * sx
        dy == n * syy - sy * sy
    IN  IF dx = 0 \/ dy = 0 THEN NaNCorr
        ELSE [nan |-> FALSE, cov |-> n * sxy - sx * sy, dx |-> dx, dy |-> dy]

\* one cell of the correlation matrix of a group
CorrelationCell(gd, cols, pm, qm) ==
    IF pm \in cols /\ qm \in cols
    THEN LET vd == ValidData(gd, pm, qm)
         IN  IF Len(vd) > 1
             THEN PearsonR([k \in DOMAIN vd |-> vd[k][pm].v],
                           [k \in DOMAIN vd |-> vd[k][qm].v])
             ELSE NaNCorr
    ELSE NaNCorr

\* the p-value of a cell is a function of r and of the number of pairs
PValueCell(gd, cols, pm, qm) ==
    LET c == CorrelationCell(gd, cols, pm, qm)
    IN  IF c.nan THEN NaNPValue
        ELSE [nan |-> FALSE, n |-> Len(ValidData(gd, pm, qm))]

\* |a| < |b| for two coefficients that are not NaN
AbsLess(a, b) == a.cov * a.cov * b.dx * b.dy < b.cov * b.cov * a.dx * a.dy

\* max() of the absolute values of a set of cells, NaN skipped
MaxAbs(cells) ==
    LET defined == {c \in cells : ~c.nan}
    IN  IF defined = {} THEN NaNCorr
        ELSE CHOOSE c \in defined : \A o \in defined : ~AbsLess(c, o)

\* idxmax(): the first name with the largest value, None when all are NaN
IdxMax(names, val) ==
    LET defined == {k \in DOMAIN names : ~val[names[k]].nan}
    IN  IF defined = {} THEN "None"
        ELSE names[CHOOSE k \in defined :
                      /\ \A j \in defined : ~AbsLess(val[names[k]], val[names[j]])
                      /\ \A j \in defined :
                             j < k => AbsLess(val[names[j]], val[names[k]])]

SeqRange(s) == {s[k] : k \in DOMAIN s}

GroupCorrelations(gd, cols) ==
    [pm \in SeqRange(PhysicalMetrics) |->
        [qm \in SeqRange(ProductivityMetrics) |-> CorrelationCell(gd, cols, pm, qm)]]

GroupSummary(gd, cols) ==
    LET corr == GroupCorrelations(gd, cols)
        all == {corr[pm][qm] : pm \in SeqRange(PhysicalMetrics),
                               qm \in SeqRange(ProductivityMetrics)}
        byRow == [pm \in SeqRange(PhysicalMetrics) |->
                     MaxAbs({corr[pm][qm] : qm \in SeqRange(ProductivityMetrics)})]
        byCol == [qm \in SeqRange(ProductivityMetrics) |->
                     MaxAbs({corr[pm][qm] : pm \in SeqRange(PhysicalMetrics)})]
    IN  [strongest_correlation |-> MaxAbs(all),
         strongest_pair |-> <<IdxMax(PhysicalMetrics, byRow),
                              IdxMax(ProductivityMetrics, byCol)>>,
         sample_size |-> Len(gd)]

CorrGroupData(frame, g) == SelectSeq(frame, LAMBDA r : r.standardized_group = g)

\* analyze_productivity_correlations
ProductivityCorrelations(frame, cols) ==
    LET groups == {frame[k].standardized_group : k \in DOMAIN frame}
    IN  [correlations |->
             [g \in groups |-> GroupCorrelations(CorrGroupData(frame, g), cols)],
         statistics |->
             [g \in groups |->
                 [pm \in SeqRange(PhysicalMetrics) |->
                     [qm \in SeqRange(ProductivityMetrics) |->
                         PValueCell(CorrGroupData(frame, g), cols, pm, qm)]]],
         summary |->
             [g \in groups |-> GroupSummary(CorrGroupData(frame, g), cols)]]

InitCorr ==
    /\ corr_df = <<>>
    /\ corr_columns \in {{}, MetricColumns}
    /\ correlation_results = <<>>
    /\ pcCorr = "input"
    /\ BaseIdle
    /\ MarkovIdle
    /\ BreakIdle
    /\ PeakIdle
    /\ StatsIdle
    /\ VarIdle
    /\ CombineIdle
    /\ TeamIdle

AddCorrRow ==
    /\ pcCorr = "input"
    /\ Len(corr_df) < MaxCorrRows
    /\ \E g \in BioGroups, x \in MetricValues, y \in MetricValues :
          corr_df' = Append(corr_df,
              [standardized_group |-> g, stress_mean |-> x, receipts |-> y])
    /\ UNCHANGED <<corr_columns, correlation_results, pcCorr>>
    /\ UNCHANGED <<baseVars, markovVars, breakVars, peakVars, statsVars, varVars, combineVars, teamVars>>

AnalyzeProductivityCorrelations ==
    /\ pcCorr = "input"
    /\ correlation_results' = ProductivityCorrelations(corr_df, corr_columns)
    /\ pcCorr' = "done"
    /\ UNCHANGED <<corr_df, corr_columns>>
    /\ UNCHANGED <<baseVars, markovVars, breakVars, peakVars, statsVars, varVars, combineVars, teamVars>>

NextCorr ==
    \/ AddCorrRow
    \/ AnalyzeProductivityCorrelations

SpecCorr == InitCorr /\ [][NextCorr]_vars

(***************************************************************************)
(* analysis/metrics.py: analyze_team_patterns; main.py: main               *)
(*                                                                         *)
(* The samples are working-hours samples of one 15-minute slot; of the     *)
(* pattern rows the activity counts are kept.                              *)
(***************************************************************************)
TeamRows(frame, g) == {k \in DOMAIN frame : frame[k].standardized_group = g}

\* analyze_team_patterns: baselines[row['user_id']] raises KeyError for a
\* user without an entry
TeamPatterns(frame, bl) ==
    IF \E k \in DOMAIN frame : frame[k].user_id \notin DOMAIN bl
    THEN [raised |-> "KeyError"]
    ELSE [raised |-> "no",
          activity_level |->
              [g \in {frame[k].standardized_group : k \in DOMAIN frame} |->
                  [l \in LevelSet |->
                      Cardinality({k \in TeamRows(frame, g) :
                          ActivityLevel(frame[k].heart_rate, bl[frame[k].user_id]) = l})]]]

\* main: one try block around all stages; any exception is printed and
\* None is returned
MainResult(pr) ==
    IF pr.raised # "no" THEN NoneResult
    ELSE [returned |-> "results", patterns |-> pr]

InitTeam ==
    /\ team_df = <<>>
    /\ team_baselines \in BaselineChoices
    /\ pattern_results = NoResults
    /\ main_result = NoResults
    /\ pcTeam = "input"
    /\ BaseIdle
    /\ MarkovIdle
    /\ BreakIdle
    /\ PeakIdle
    /\ StatsIdle
    /\ VarIdle
    /\ CombineIdle
    /\ CorrIdle

AddTeamRow ==
    /\ pcTeam = "input"
    /\ Len(team_df) < MaxTeamRows
    /\ \E u \in Users, hr \in TpHeartRates :
          team_df' = Append(team_df,
              [user_id |-> u, standardized_group |-> TeamGroup[u], heart_rate |-> hr])
    /\ UNCHANGED <<team_baselines, pattern_results, main_result, pcTeam>>
    /\ UNCHANGED <<baseVars, markovVars, breakVars, peakVars, statsVars, varVars, combineVars, corrVars>>

AnalyzeTeamPatterns ==
    /\ pcTeam = "input"
    /\ pattern_results' = TeamPatterns(team_df, team_baselines)
    /\ pcTeam' = "analysed"
    /\ UNCHANGED <<team_df, team_baselines, main_result>>
    /\ UNCHANGED <<baseVars, markovVars, breakVars, peakVars, statsVars, varVars, combineVars, corrVars>>

MainReturns ==
    /\ pcTeam = "analysed"
    /\ main_result' = MainResult(pattern_results)
    /\ pcTeam' = "returned"
    /\ UNCHANGED <<team_df, team_baselines, pattern_results>>
    /\ UNCHANGED <<baseVars, markovVars, breakVars, peakVars, statsVars, varVars, combineVars, corrVars>>

NextTeam ==
    \/ AddTeamRow
    \/ AnalyzeTeamPatterns
    \/ MainReturns

SpecTeam == InitTeam /\ [][NextTeam]_vars

(***************************************************************************)
(* Claims about the baseline estimator and the classifier                  *)
(***************************************************************************)
ValidReserve(b) == ~b.hr_reserve.nan /\ b.hr_reserve.v > 0

\* the step function of the reserve fraction n/r (r > 0), in percent cutoffs
StepOfFraction(n, r) ==
    IF 100 * n <= 20 * r THEN "sedentary"
    ELSE IF 100 * n <= 40 * r THEN "light"
    ELSE IF 100 * n <= 70 * r THEN "moderate"
    ELSE "intense"

\* C1: for every sample whose user has a baseline with hr_reserve > 0 the
\* activity state is the step function of f = (heart_rate - resting_hr) /
\* hr_reserve with cutoffs 0.20 / 0.40 / 0.70 (closed on the right), and for a
\* fixed baseline the state never decreases when heart_rate increases (hence
\* equal heart rates get equal states).
C1_StepFunction ==
    pcBase = "classified" =>
        \A i \in DOMAIN df :
            LET b == baselines[df[i].user_id]
            IN  ValidReserve(b) =>
                  /\ activity.levels[i] =
                        StepOfFraction(Scale * df[i].heart_rate - b.resting_hr.v,
                                       b.hr_reserve.v)
                  /\ \A j \in DOMAIN df :
                        (df[j].user_id = df[i].user_id
                           /\ df[j].heart_rate <= df[i].heart_rate)
                        => LevelRank(activity.levels[j]) <= LevelRank(activity.levels[i])

\* a user with a valid baseline has a sample exactly on the 0.20 cutoff
\* (classified sedentary) and a higher sample classified above it
C1_Witness ==
    /\ pcBase = "classified"
    /\ \E i, j \in DOMAIN df :
          LET b == baselines[df[i].user_id]
          IN  /\ df[j].user_id = df[i].user_id
              /\ ValidReserve(b)
              /\ 100 * (Scale * df[i].heart_rate - b.resting_hr.v) = 20 * b.hr_reserve.v
              /\ activity.levels[i] = "sedentary"
              /\ df[j].heart_rate > df[i].heart_rate
              /\ activity.levels[j] = "intense"

\* C2: when a user's baseline has hr_reserve <= 0, classifying that user's
\* samples raises DegenerateReserveError instead of returning a state.
C2_DegenerateReserveRaises ==
    pcBase = "classified" =>
        ((\E i \in DOMAIN df :
              LET b == baselines[df[i].user_id]
              IN  ~b.hr_reserve.nan /\ b.hr_reserve.v <= 0)
         => activity.raised = "DegenerateReserveError")

\* C3: every baseline of a user with working-hours samples in 40..200 has
\* hr_reserve > 0 and resting_hr < max_hr, whatever the age.
C3_ReservePositive ==
    pcBase = "baselined" =>
        \A u \in DOMAIN baselines :
            WorkingHeartRates(df, u) # <<>> =>
                /\ ValidReserve(baselines[u])
                /\ ~baselines[u].resting_hr.nan
                /\ baselines[u].resting_hr.v < baselines[u].max_hr

\* C4: a user with zero working-hours samples has no entry in the result of
\* calculate_individual_baselines.
C4_NoBaselineWithoutWorkingHours ==
    pcBase = "baselined" =>
        \A u \in UsersOf(df) :
            WorkingHeartRates(df, u) = <<>> => u \notin DOMAIN baselines

(***************************************************************************)
(* Claims about the Markov transition engine                               *)
(***************************************************************************)
Returned == pcMarkov = "done" /\ transition_matrices.raised = "no"

\* the sample of the frame a counted row was made from
SampleOf(c, g) ==
    CHOOSE a \in tp_df : /\ a.user_id = c.user_id
                         /\ a.local_time = c.local_time
                         /\ a.standardized_group = g

\* b is the sample that follows a in the time-ordered series of a's user
FollowsInUserSeries(a, b) ==
    /\ b.user_id = a.user_id
    /\ b.standardized_group = a.standardized_group
    /\ a.local_time < b.local_time
    /\ ~\E m \in tp_df : /\ m.user_id = a.user_id
                         /\ a.local_time < m.local_time
                         /\ m.local_time < b.local_time

\* C5: every counted transition (s, s') is made of two samples of the same
\* user that are consecutive in that user's time-ordered series within the
\* group, both with a known state; each sample is counted at most once as a
\* source; a returned matrix counts exactly these rows.
C5_SameUserConsecutive ==
    pcMarkov = "done" =>
        \A g \in DOMAIN group_data :
            LET counted == group_data[g]
            IN  /\ \A k \in DOMAIN counted :
                      LET a == SampleOf(counted[k], g)
                      IN  /\ a.user_id \in DOMAIN tp_baselines
                          /\ counted[k].activity_level \in LevelSet
                          /\ counted[k].next_activity \in LevelSet
                          /\ counted[k].activity_level =
                                ActivityLevel(a.heart_rate, tp_baselines[a.user_id])
                          /\ \E b \in tp_df :
                                /\ FollowsInUserSeries(a, b)
                                /\ counted[k].next_activity =
                                      ActivityLevel(b.heart_rate, tp_baselines[b.user_id])
                /\ \A k1, k2 \in DOMAIN counted :
                      k1 # k2 => SampleOf(counted[k1], g) # SampleOf(counted[k2], g)
                /\ transition_matrices.raised = "no" =>
                      LET t == transition_matrices.result[g].matrix
                      IN  SumSeq(t.tot) = Len(counted)

\* two users with a baseline in one group, the first with a counted
\* transition: the last sample of u1 is followed in the sorted frame by the
\* first sample of u2, both with a known state
C5_Witness ==
    /\ Returned
    /\ DOMAIN tp_baselines = Users
    /\ \E g \in DOMAIN group_data :
          /\ \E k \in DOMAIN group_data[g] : group_data[g][k].user_id = "u1"
          /\ \E r \in tp_df : r.user_id = "u2" /\ r.standardized_group = g
          /\ \E r1, r2 \in tp_df : /\ r1.user_id = "u1" /\ r2.user_id = "u2"
                                   /\ r2.local_time < r1.local_time

\* C6: in every returned matrix each row has at least one counted
\* transition and sums to 1: entry (i, j) is cnt[i][j] / tot[i], where
\* cnt[i][j] is the number of counted transitions index[i] -> columns[j]
\* and tot[i] the number of counted transitions leaving index[i].
C6_RowsSumToOne ==
    Returned =>
        \A g \in DOMAIN transition_matrices.result :
            LET t == transition_matrices.result[g].matrix
                counted == group_data[g]
            IN  \A i \in DOMAIN t.index :
                    /\ t.tot[i] > 0
                    /\ SumSeq(t.cnt[i]) = t.tot[i]
                    /\ t.tot[i] = Cardinality({k \in DOMAIN counted :
                                      counted[k].activity_level = t.index[i]})
                    /\ \A j \in DOMAIN t.columns :
                          t.cnt[i][j] = PairCount(counted, t.index[i], t.columns[j])

\* a returned matrix with two source states
C6_Witness ==
    /\ Returned
    /\ \E g \in DOMAIN transition_matrices.result :
          Len(transition_matrices.result[g].matrix.index) = 2

\* C7: every returned transition matrix of a group with at least one
\* counted transition is indexed on rows and on columns by the four activity
\* states (a state that never occurs as a source still has a row).
C7_FourStateSquare ==
    Returned =>
        \A g \in DOMAIN transition_matrices.result :
            LET t == transition_matrices.result[g].matrix
            IN  group_data[g] # <<>> =>
                  /\ t.index = LabelOrder
                  /\ t.columns = LabelOrder

\* the counted transitions a -> b of a table, by label (0 when absent)
LabelCount(t, a, b) ==
    IF \E i \in DOMAIN t.index : t.index[i] = a
        THEN LET i == CHOOSE i \in DOMAIN t.index : t.index[i] = a
             IN  IF \E j \in DOMAIN t.columns : t.columns[j] = b
                     THEN t.cnt[i][CHOOSE j \in DOMAIN t.columns : t.columns[j] = b]
                     ELSE 0
        ELSE 0
LabelTotal(t, a) ==
    IF \E i \in DOMAIN t.index : t.index[i] = a
        THEN t.tot[CHOOSE i \in DOMAIN t.index : t.index[i] = a]
        ELSE 0

\* C8: the duration reported under state s is 1 / (1 - P[s,s]) for the
\* self-transition probability P[s,s] of that state: +inf exactly when
\* P[s,s] = 1, and the finite value tot / (tot - cnt) otherwise.
C8_ExpectedDuration ==
    Returned =>
        \A g \in DOMAIN transition_matrices.result :
            LET t == transition_matrices.result[g].matrix
                dur == transition_matrices.result[g].average_duration
            IN  \A j \in DOMAIN dur.index :
                    LET s == dur.index[j]
                        tot == LabelTotal(t, s)
                        stay == LabelCount(t, s, s)
                    IN  /\ tot > 0
                        /\ (stay = tot) <=> (dur.d[j] = 0)
                        /\ dur.n[j] * (tot - stay) = dur.d[j] * tot

\* C9: a returned steady-state vector sums to 1, has no negative entry and
\* satisfies vector = vector * P for the transition matrix P, taken by
\* state label.
C9_SteadyState ==
    Returned =>
        \A g \in DOMAIN transition_matrices.result :
            LET t == transition_matrices.result[g].matrix
                ss == transition_matrices.result[g].steady_state
                R == ProdSeq(t.tot)
            IN  ss.index # <<>> =>
                  /\ ss.sum # 0
                  /\ \A j \in DOMAIN ss.index : ss.v[j] * ss.sum >= 0
                  /\ \A j \in DOMAIN ss.index :
                        /\ ss.v[j] # 0 => LabelTotal(t, ss.index[j]) > 0
                        /\ SumSeq([i \in DOMAIN ss.index |->
                              IF ss.v[i] = 0 \/ LabelTotal(t, ss.index[i]) = 0 THEN 0
                              ELSE ss.v[i] * LabelCount(t, ss.index[i], ss.index[j])
                                     * (R \div LabelTotal(t, ss.index[i]))])
                           = ss.v[j] * R


(***************************************************************************)
(* Claims about the break detector                                         *)
(***************************************************************************)
BreakReturned == pcBreak = "done"

\* the rows of the 5-sample trailing window at row i
TrailingWindow(i) == {k \in 1..i : k > i - 5}

RECURSIVE StressTotal(_, _)
StressTotal(ud, rows) ==
    IF rows = {} THEN 0
    ELSE LET k == CHOOSE x \in rows : TRUE
         IN  ud[k].stress_score + StressTotal(ud, rows \ {k})

\* mean(window i) - mean(window i-1), multiplied by both window sizes
MeanDiffScaled(ud, i) ==
    StressTotal(ud, TrailingWindow(i)) * Cardinality(TrailingWindow(i - 1))
        - StressTotal(ud, TrailingWindow(i - 1)) * Cardinality(TrailingWindow(i))

MeanDiffBelow(ud, i, c) ==
    i > 1 /\ MeanDiffScaled(ud, i)
                < c * Cardinality(TrailingWindow(i)) * Cardinality(TrailingWindow(i - 1))

MeanDiffAbove(ud, i, c) ==
    i > 1 /\ MeanDiffScaled(ud, i)
                > c * Cardinality(TrailingWindow(i)) * Cardinality(TrailingWindow(i - 1))

\* closed segments of a user's loop: rows where in_break goes from True to False
ClosedSegments(log) == {k \in DOMAIN log : k > 1 /\ log[k - 1] /\ ~log[k]}

C11_NonOverlapping ==
    BreakReturned =>
        \A g \in DOMAIN breaks : \A u \in DOMAIN breaks[g] :
            \A n \in DOMAIN breaks[g][u] :
                /\ breaks[g][u][n].start_time < breaks[g][u][n].end_time
                /\ n > 1 => breaks[g][u][n].start_time > breaks[g][u][n - 1].end_time

\* a user with two reported events
C11_Witness ==
    /\ BreakReturned
    /\ \E g \in DOMAIN breaks : \E u \in DOMAIN breaks[g] : Len(breaks[g][u]) >= 2

\* the stress scores of a user's rows in time order
SeriesOf(frame, g, u) ==
    LET ud == UserData(frame, g, u) IN [k \in DOMAIN ud |-> ud[k].stress_score]

\* a series whose trailing means differ by exactly 20 at samples 6, 7 and 8
\* (0-based) as quotients, and by more than 20 as float64 numbers
TwoBreakSeries == <<100, 0, 100, 0, 0, 1, 100, 0, 100>>

\* C12: with the default arguments (window 5, stress_drop 20,
\* threshold_duration 10) some stress series with values in 0..100 makes
\* detect_breaks report two or more break events for one user: the series
\* TwoBreakSeries does.
C12_ManyBreaksWithDefaults ==
    (/\ BreakReturned
     /\ stress_drop = DefaultStressDrop
     /\ threshold_duration = DefaultThresholdDuration)
        => \A g \in DOMAIN breaks : \A u \in DOMAIN breaks[g] :
               SeriesOf(bk_df, g, u) = TwoBreakSeries => Len(breaks[g][u]) >= 2

\* detect_breaks has returned two events for one user with the defaults
C12_Witness ==
    /\ BreakReturned
    /\ stress_drop = DefaultStressDrop
    /\ threshold_duration = DefaultThresholdDuration
    /\ \E g \in DOMAIN breaks : \E u \in DOMAIN breaks[g] :
          /\ SeriesOf(bk_df, g, u) = TwoBreakSeries
          /\ Len(breaks[g][u]) = 2

\* the boundaries of the events of a returned dict: user, start_time, end_time
Boundaries(dict) ==
    [g \in DOMAIN dict |->
        [u \in DOMAIN dict[g] |->
            [n \in DOMAIN dict[g][u] |->
                <<dict[g][u][n].user_id, dict[g][u][n].start_time,
                  dict[g][u][n].end_time>>]]]

PeaksReturned == pcPeak = "detected"

\* the rows of all peak tables of the returned dict
ReportedPeaks == UNION {{peaks_data[g][k] : k \in DOMAIN peaks_data[g]} : g \in DOMAIN peaks_data}

\* C14: for every reported peak whose recovery is defined, the recovery
\* timestamp is not before the peak timestamp: recovery_time is never negative.
C14_RecoveryNotBeforePeak ==
    PeaksReturned =>
        \A pkr \in ReportedPeaks : ~pkr.recovery_time.nan => pkr.recovery_time.v >= 0

\* a reported peak that is not the first of its series and recovers later
C14_Witness ==
    /\ PeaksReturned
    /\ \E pkr \in ReportedPeaks :
          /\ ~pkr.recovery_time.nan
          /\ pkr.recovery_time.v > 0
          /\ pkr.peak_time > SampleStep

\* the sample of the user's time-ordered series at which a reported peak sits
PeakRowOf(ud, pkr) == CHOOSE k \in DOMAIN ud : ud[k].local_time = pkr.peak_time

\* stress has returned at row k to within 20% of (peak value - baseline) above
\* the baseline, the baseline being the mean of the samples before the peak:
\* x <= 0.8 * S / q + 0.2 * peak  <=>  5 * q * x <= 4 * S + q * peak
Recovered(ud, pk, k) ==
    LET q == pk - 1
        before == StressTotal(ud, 1..q)
    IN  5 * q * ud[k].stress_score <= 4 * before + q * ud[pk].stress_score

NeverRecovers(ud, pk) == \A k \in (pk + 1)..Len(ud) : ~Recovered(ud, pk, k)

\* the defined recovery times of a peak table
DefinedRecoveries(peaks_df) ==
    LET keep == [k \in DOMAIN peaks_df |-> ~peaks_df[k].recovery_time.nan]
        idx == SelectSeqIdx(keep, 1, Len(peaks_df))
    IN  [k \in DOMAIN idx |-> peaks_df[idx[k]].recovery_time.v]

\* C15: a peak after which stress never returns to the recovery threshold in
\* the rest of the user's series has a null recovery_time, and the recovery
\* statistics (median_recovery, recovery_variability, recovery_by_time,
\* average_recovery) are computed over the peaks with a defined recovery_time
\* only.
C15_NullRecoveryExcluded ==
    PeaksReturned =>
        /\ \A g \in DOMAIN peaks_data : \A n \in DOMAIN peaks_data[g] :
              LET pkr == peaks_data[g][n]
                  ud == UserData(pk_df, g, pkr.user_id)
              IN  NeverRecovers(ud, PeakRowOf(ud, pkr)) => pkr.recovery_time.nan
        /\ \A g \in DOMAIN recovery_metrics :
              LET defined == DefinedRecoveries(peaks_data[g])
              IN  /\ recovery_metrics[g].median_recovery = Median2(defined)
                  /\ recovery_metrics[g].recovery_variability = Variance(defined)
                  /\ \A h \in DOMAIN recovery_metrics[g].recovery_by_time :
                        ~recovery_metrics[g].recovery_by_time[h].nan
        /\ \A g \in DOMAIN patterns :
              LET defined == DefinedRecoveries(peaks_data[g])
              IN  IF Len(defined) = 0 THEN patterns[g].average_recovery.nan
                  ELSE /\ ~patterns[g].average_recovery.nan
                       /\ patterns[g].average_recovery.n = SumSeq(defined)
                       /\ patterns[g].average_recovery.d = Len(defined)

(***************************************************************************)
(* Claims about the statistical tests                                      *)
(***************************************************************************)
ComparisonsReturned == pcStats \in {"compared", "analyzed"} /\ time_results.raised = "no"

\* the distinct days on which a group has data at a time of day
DaysWithData(tb, g) ==
    {r.date : r \in {q \in st_df : q.time = tb /\ q.standardized_group = g}}

EveryGroupHasEnoughDays(tb) ==
    \A g \in GroupsOf(st_df) : Cardinality(DaysWithData(tb, g)) >= 5

\* C16: run_time_comparisons keeps the time axis intact: one entry per distinct
\* time block in time_blocks, h_statistic, p_value, effect_size and in every
\* group's group_medians and sample_sizes; the Kruskal-Wallis test is run for
\* a block only if every group has at least 5 distinct days of data in it, and
\* otherwise statistic, p-value, effect size and medians are NaN.
C16_TimeAxisIntact ==
    ComparisonsReturned =>
        LET res == time_results
            n == Len(res.time_blocks)
        IN  /\ n = Cardinality({r.time : r \in st_df})
            /\ {res.time_blocks[k] : k \in 1..n} = {r.time : r \in st_df}
            /\ Len(res.h_statistic) = n
            /\ Len(res.p_value) = n
            /\ Len(res.effect_size) = n
            /\ DOMAIN res.group_medians = GroupsOf(st_df)
            /\ DOMAIN res.sample_sizes = GroupsOf(st_df)
            /\ \A g \in GroupsOf(st_df) :
                  /\ Len(res.group_medians[g]) = n
                  /\ Len(res.sample_sizes[g]) = n
            /\ \A k \in 1..n :
                  IF EveryGroupHasEnoughDays(res.time_blocks[k])
                      THEN /\ ~res.h_statistic[k].nan
                           /\ ~res.p_value[k].nan
                           /\ ~res.effect_size[k].nan
                           /\ \A g \in GroupsOf(st_df) : ~res.group_medians[g][k].nan
                      ELSE /\ res.h_statistic[k].nan
                           /\ res.p_value[k].nan
                           /\ res.effect_size[k].nan
                           /\ \A g \in GroupsOf(st_df) : res.group_medians[g][k].nan

\* a run over two time blocks: one tested, the other without enough days for
\* a group that has five raw samples in it
C16_Witness ==
    /\ ComparisonsReturned
    /\ \E k \in DOMAIN time_results.time_blocks : ~time_results.p_value[k].nan
    /\ \E k \in DOMAIN time_results.time_blocks :
          /\ time_results.p_value[k].nan
          /\ \E g \in GroupsOf(st_df) :
                /\ Cardinality(DaysWithData(time_results.time_blocks[k], g)) = 1
                /\ time_results.sample_sizes[g][k] = 1
                /\ Cardinality({r \in st_df : r.time = time_results.time_blocks[k]
                                              /\ r.standardized_group = g}) >= 5

\* C(k, 2) for the k groups of the frame
NumberOfPairs == Cardinality({pr \in SUBSET GroupsOf(st_df) : Cardinality(pr) = 2})

\* C17: every pair recorded in significant_differences belongs to a time block
\* whose Kruskal-Wallis p-value is < 0.05 and has a Mann-Whitney p-value
\* < 0.05 / C(k, 2), k the number of groups; so every recorded pair would also
\* be reported with the uncorrected threshold p < 0.05.
C17_BonferroniSubset ==
    ComparisonsReturned =>
        \A n \in DOMAIN time_results.significant_differences :
            LET d == time_results.significant_differences[n]
            IN  /\ \E k \in DOMAIN time_results.time_blocks :
                      /\ time_results.time_blocks[k] = d.time_block
                      /\ ~time_results.p_value[k].nan
                      /\ time_results.p_value[k].v < 50
                /\ d.p_value * NumberOfPairs < 50
                /\ d.p_value < 50
                /\ {d.group1, d.group2} \subseteq GroupsOf(st_df)
                /\ d.group1 # d.group2

\* three groups, a significant block, and some but not all pairs recorded
C17_Witness ==
    /\ ComparisonsReturned
    /\ NumberOfPairs = 3
    /\ \E tb \in TimesOfDay :
          LET here == {n \in DOMAIN time_results.significant_differences :
                          time_results.significant_differences[n].time_block = tb}
          IN  Cardinality(here) \in {1, 2}

DifferencesReturned == pcStats = "analyzed" /\ group_differences.raised = "no"

\* the distinct days on which the pooled other groups have data at a time of day
DaysOfOthers(tb, g) ==
    {r.date : r \in {q \in st_df : q.time = tb /\ q.standardized_group # g}}

\* C18: analyze_group_differences compares a group with the pooled other
\* groups at a time bucket under the gate of the pairwise variant, at least 5
\* distinct days of data on each side (not 5 raw samples), and records a
\* difference for the group only if the gate passes and the uncorrected
\* p-value is < 0.05.
C18_SameGateAsPairwise ==
    DifferencesReturned =>
        \A g \in DOMAIN group_differences.result :
            \A tb \in DOMAIN group_differences.result[g] :
                /\ Cardinality(DaysWithData(tb, g)) >= 5
                /\ Cardinality(DaysOfOthers(tb, g)) >= 5
                /\ group_differences.result[g][tb].p_value < 50


(***************************************************************************)
(* Claims about the variance components                                    *)
(***************************************************************************)
VarianceReturned == pcVar \in {"variance", "both"}
VariabilityReturned == pcVar \in {"variability", "both"}

VarRows(g) == {r \in var_df : r.standardized_group = g}

StdDefined(x) == ~x.nan /\ x.n >= 0 /\ x.d > 0
MeanDefined(x) == ~x.nan /\ \A k \in DOMAIN x.terms : StdDefined(x.terms[k])

\* C19: the within-day, between-day and user-to-user components of a group
\* are always defined and non-negative, in the result of
\* calculate_group_variance and in the result of compare_group_variability;
\* with a single day the between-day component is 0, with a single user the
\* user-to-user component is 0, and with one sample in every cell the
\* within-day component averages over, that component is 0
C19_ComponentsDefined ==
    /\ VarianceReturned =>
          \A g \in DOMAIN variance_scores :
              LET v == variance_scores[g]
              IN  /\ MeanDefined(v.within_day_variance)
                  /\ StdDefined(v.between_day_variance)
                  /\ StdDefined(v.user_variance)
                  /\ Cardinality(ByDate(VarRows(g))) = 1
                         => v.between_day_variance = ZeroStd
                  /\ Cardinality(ByUser(VarRows(g))) = 1
                         => v.user_variance = ZeroStd
                  /\ (\A c \in ByDateUser(VarRows(g)) : Cardinality(c) = 1)
                         => v.within_day_variance = ZeroMean
    /\ VariabilityReturned =>
          \A g \in DOMAIN comparisons :
              LET v == comparisons[g]
              IN  /\ MeanDefined(v.intraday_variability)
                  /\ StdDefined(v.interday_variability)
                  /\ StdDefined(v.user_variability)
                  /\ Cardinality(ByDate(VarRows(g))) = 1
                         => v.interday_variability = ZeroStd
                  /\ Cardinality(ByUser(VarRows(g))) = 1
                         => v.user_variability = ZeroStd
                  /\ (\A c \in ByDate(VarRows(g)) : Cardinality(c) = 1)
                         => v.intraday_variability = ZeroMean


(***************************************************************************)
(* Claims about the productivity join                                      *)
(***************************************************************************)
CombinedReturned == pcCombine = "combined"

SummaryKeys == {KeyOf(monthly_summaries[k]) : k \in DOMAIN monthly_summaries}
CaskKeys == {CaskKeyOf(cask_df[k]) : k \in DOMAIN cask_df}

OnlySharedKeys ==
    \A k \in DOMAIN combined_data :
        KeyOf(combined_data[k]) \in SummaryKeys \cap CaskKeys

\* C20: the result of combine_productivity_biometrics holds only
\* (year, month, group) keys present in both inputs, and it has at most as
\* many rows as the smaller of the monthly summary and the productivity data
C20_InnerJoinBounded ==
    CombinedReturned =>
        /\ OnlySharedKeys
        /\ Len(combined_data) <= Len(monthly_summaries)
        /\ Len(combined_data) <= Len(cask_df)


(***************************************************************************)
(* Claims about the productivity correlations                              *)
(***************************************************************************)
CorrelationsReturned == pcCorr = "done"

\* paired non-missing observations of a group for two metrics
PairedObservations(g, pm, qm) ==
    IF pm \in corr_columns /\ qm \in corr_columns
    THEN Cardinality({k \in DOMAIN corr_df :
                         /\ corr_df[k].standardized_group = g
                         /\ ~corr_df[k][pm].nan
                         /\ ~corr_df[k][qm].nan})
    ELSE 0

\* a correlation or a p-value is present only with at least two pairs
ComputedOnlyWithTwoPairs ==
    \A g \in DOMAIN correlation_results.correlations :
        \A pm \in SeqRange(PhysicalMetrics), qm \in SeqRange(ProductivityMetrics) :
            (\/ ~correlation_results.correlations[g][pm][qm].nan
             \/ ~correlation_results.statistics[g][pm][qm].nan)
                => PairedObservations(g, pm, qm) >= 2

\* the cell of a triple is the empty cell exactly when the triple has fewer
\* than two pairs
InsufficientDistinguishable ==
    \A g \in DOMAIN correlation_results.correlations :
        \A pm \in SeqRange(PhysicalMetrics), qm \in SeqRange(ProductivityMetrics) :
            (correlation_results.correlations[g][pm][qm] = NaNCorr)
                <=> (PairedObservations(g, pm, qm) < 2)

\* C21: a Pearson correlation and p-value are computed for a (physical
\* metric, productivity metric, group) triple only when there are at least
\* two paired non-missing observations, and with fewer the outcome of the
\* triple is an insufficient-data outcome that no computed correlation has
C21_InsufficientDataExplicit ==
    CorrelationsReturned =>
        /\ ComputedOnlyWithTwoPairs
        /\ InsufficientDistinguishable


(***************************************************************************)
(* Claims about the frames and the time blocks of the statistical tests    *)
(***************************************************************************)
\* C22: a stage leaves the frame it is handed as it was: after
\* run_time_comparisons or analyze_group_differences has returned, the
\* caller's frame has the columns it had before the call
C22_InputsUnchanged ==
    (ComparisonsReturned \/ DifferencesReturned) => st_columns = CleanedColumns

\* minutes since midnight of a time of day written HHMM
MinuteOfDay(t) == (t \div 100) * MinutesPerHour + (t % 100)
QuarterLength == 15
QuarterOf(t) == MinuteOfDay(t) \div QuarterLength

\* C26: run_time_comparisons tests the samples of a 15-minute interval of
\* the day together: two samples in the same interval (09:01 and 09:14)
\* have the same time block, so no two reported blocks lie in one interval
C26_QuarterHourBlocks ==
    ComparisonsReturned =>
        \A i, j \in DOMAIN time_results.time_blocks :
            QuarterOf(time_results.time_blocks[i]) = QuarterOf(time_results.time_blocks[j])
                => i = j

\* C30: analyze_group_differences does not need run_time_comparisons to
\* have run on the frame before: called on a cleaned frame, it returns
C30_OrderIndependent ==
    pcStats = "analyzed" => group_differences.raised = "no"


(***************************************************************************)
(* Claims about the batch run                                              *)
(***************************************************************************)
MainReturned == pcTeam = "returned"

\* the rows of a group whose user has a baseline entry and is at a level
ClassifiedRows(g, l) ==
    {k \in TeamRows(team_df, g) :
        /\ team_df[k].user_id \in DOMAIN team_baselines
        /\ ActivityLevel(team_df[k].heart_rate,
                         team_baselines[team_df[k].user_id]) = l}

\* C23: a user without a baseline entry does not abort the run:
\* analyze_team_patterns leaves that user out of the classification and
\* main returns the results of the other users and groups
C23_FailuresLocal ==
    MainReturned =>
        /\ pattern_results.raised = "no"
        /\ main_result # NoneResult
        /\ \A g \in DOMAIN pattern_results.activity_level, l \in LevelSet :
              pattern_results.activity_level[g][l] = Cardinality(ClassifiedRows(g, l))


(***************************************************************************)
(* Claims about the independence of the groups                             *)
(***************************************************************************)
\* what the call may return or raise when it is handed the rows of g only
GroupAlone(g) ==
    TransitionResults({r \in tp_df : r.standardized_group = g}, tp_baselines)

\* C24: the result of calculate_transition_probabilities for a group is
\* the result the call has on the rows of that group alone, whatever the
\* rows of the other groups
C24_NoCrossGroupState ==
    pcMarkov = "done" =>
        \A g \in GroupsOf(tp_df) :
            \E a \in GroupAlone(g) :
                /\ a.raised = transition_matrices.raised
                /\ a.raised = "no" => a.result[g] = transition_matrices.result[g]


(***************************************************************************)
(* Claims about the recovery point                                         *)
(***************************************************************************)
\* the samples strictly later than the peak at which stress has returned
RecoveredLater(ud, pk) == {k \in (pk + 1)..Len(ud) : Recovered(ud, pk, k)}

\* C25: the recovery point of a detected peak is the first sample strictly
\* later than the peak whose stress is at most
\* baseline + 0.2 * (peak value - baseline), the baseline being the mean
\* stress of the samples before the peak
C25_RecoveryFromPrePeakBaseline ==
    PeaksReturned =>
        \A g \in DOMAIN peaks_data : \A n \in DOMAIN peaks_data[g] :
            LET pkr == peaks_data[g][n]
                ud == UserData(pk_df, g, pkr.user_id)
                pk == PeakRowOf(ud, pkr)
                later == RecoveredLater(ud, pk)
            IN  IF later = {} THEN pkr.recovery_time.nan
                ELSE pkr.recovery_time =
                         Val(ud[MinOf(later)].local_time - pkr.peak_time)


(***************************************************************************)
(* Claims about the state of the break detector                            *)
(***************************************************************************)
\* is a break open after row i of a user's series: closed before the first
\* row, opened by a drop while closed, closed by a rise while open
RECURSIVE InBreakAfter(_, _, _)
InBreakAfter(ud, i, sdrop) ==
    IF i = 0 THEN FALSE
    ELSE LET before == InBreakAfter(ud, i - 1, sdrop)
         IN  IF ~before /\ MeanDiffBelow(ud, i, 0 - sdrop) THEN TRUE
             ELSE IF before /\ MeanDiffAbove(ud, i, sdrop) THEN FALSE
             ELSE before

\* the row at which the break that is open before row k was opened
OpenedAt(ud, k, sdrop) ==
    CHOOSE i \in 1..(k - 1) :
        /\ InBreakAfter(ud, i, sdrop) /\ ~InBreakAfter(ud, i - 1, sdrop)
        /\ \A j \in i..(k - 1) : InBreakAfter(ud, j, sdrop)

\* the rows at which a rise closes a break
ClosingRows(ud, sdrop) ==
    {k \in DOMAIN ud : InBreakAfter(ud, k - 1, sdrop) /\ ~InBreakAfter(ud, k, sdrop)}

SegmentLength(ud, k, sdrop) == ud[k].local_time - ud[OpenedAt(ud, k, sdrop)].local_time

\* C27: the open/closed state of the detector does not leak: it is closed
\* before the first row of every user, every rise while open closes it
\* whether or not the segment is long enough to be reported, so a later drop
\* opens a new break, and the events are the closed segments of at least
\* threshold_duration minutes: a break still open at the end of the series
\* gives no event
C27_StateNeverLeaks ==
    BreakReturned =>
        \A g \in DOMAIN breaks : \A u \in DOMAIN breaks[g] :
            LET ud == UserData(bk_df, g, u)
                log == in_break_log[g][u]
                kept == {k \in ClosingRows(ud, stress_drop) :
                            SegmentLength(ud, k, stress_drop) >= threshold_duration}
            IN  /\ log = [i \in DOMAIN ud |-> InBreakAfter(ud, i, stress_drop)]
                /\ Len(breaks[g][u]) = Cardinality(kept)
                /\ {breaks[g][u][n].end_time : n \in DOMAIN breaks[g][u]}
                       = {ud[k].local_time : k \in kept}

\* a user whose first closed segment is too short to be reported, who opens
\* a new break later and ends the series with it open, followed by another
\* user
C27_Witness ==
    /\ BreakReturned
    /\ \E g \in DOMAIN breaks :
          /\ Cardinality(DOMAIN breaks[g]) = 2
          /\ LET u == UserOrder[1]
                 ud == UserData(bk_df, g, u)
                 log == in_break_log[g][u]
             IN  /\ u \in DOMAIN breaks[g]
                 /\ \E k \in ClosedSegments(log) :
                       /\ SegmentLength(ud, k, stress_drop) < threshold_duration
                       /\ \E j \in (k + 1)..Len(ud) : log[j]
                 /\ log[Len(ud)]
                 /\ breaks[g][u] = <<>>


(***************************************************************************)
(* Claims about the default arguments of the break detector                *)
(***************************************************************************)
\* rows of a user's series at which the detector changes its state
StateChanges(log) ==
    {i \in DOMAIN log : log[i] # (IF i = 1 THEN FALSE ELSE log[i - 1])}

\* C28: with the default window of 5 and stress_drop of 20 and stress scores
\* in 0..100, the first difference of the trailing mean is (x[t] - x[t-5]) / 5
\* at every sample with a full window, it is neither below -20 nor above 20
\* at any sample of index 4 or more (0-based), and so a break starts or ends
\* only at the samples of index 1 to 3 of a user's time-ordered series.
C28_OnlyEarlySamples ==
    (/\ BreakReturned
     /\ stress_drop = DefaultStressDrop
     /\ threshold_duration = DefaultThresholdDuration)
        => \A g \in DOMAIN breaks : \A u \in DOMAIN breaks[g] :
               LET ud == UserData(bk_df, g, u)
               IN  /\ \A i \in DOMAIN ud :
                         i > RollingWindow =>
                             LET f == StressDropAt(ud, i)
                             IN  f.n * RollingWindow
                                   = (ud[i].stress_score
                                        - ud[i - RollingWindow].stress_score) * f.d
                   /\ \A i \in DOMAIN ud :
                         i >= RollingWindow =>
                             /\ ~DropLess(StressDropAt(ud, i), 0 - DefaultStressDrop)
                             /\ ~DropGreater(StressDropAt(ud, i), DefaultStressDrop)
                   /\ StateChanges(in_break_log[g][u]) \subseteq 2..4
                   /\ \A n \in DOMAIN breaks[g][u] :
                         /\ breaks[g][u][n].start_time \in {ud[i].local_time : i \in (2..4) \cap DOMAIN ud}
                         /\ breaks[g][u][n].end_time \in {ud[i].local_time : i \in (2..4) \cap DOMAIN ud}

(***************************************************************************)
(* Claims about the labels of the average durations                        *)
(***************************************************************************)
\* C29: for every state s in the result of calculate_average_duration the
\* value under label s is computed from P[s,s]: the diagonal cell taken for
\* the j-th label lies in the row of that same state, also for tables whose
\* source states differ from their next states.
C29_DurationOfSameState ==
    Returned =>
        \A g \in DOMAIN transition_matrices.result :
            LET t == transition_matrices.result[g].matrix
                dur == transition_matrices.result[g].average_duration
            IN  \A j \in DOMAIN dur.index :
                    /\ t.index[j] = dur.index[j]
                    /\ t.columns[j] = dur.index[j]

====
